---- MODULE Spec2Model ----
(***************************************************************************)
(* The rotating ingestion pipeline of the DeFi pool analyzer               *)
(* (src/unnamed/part_000: processPoolDataEnhanced with a persisted cursor, *)
(* the merge into cachedPools, the triggers) and the batch pipeline of     *)
(* src/app.js (updatePoolData / processPoolsBatch).                        *)
(*                                                                         *)
(* Node.js runs one callback at a time, so an action is the code between   *)
(* two awaits that yield to the event loop (an HTTP request, a timer).     *)
(* Local file-system calls are assumed to succeed in Spec.                 *)
(***************************************************************************)
EXTENDS Integers, Sequences, FiniteSets, TLC

(***************************************************************************)
(* Bounds.  POOLS_PER_REFRESH is 12 in part_000:248 and the retained size  *)
(* is 1000 in part_000:386; the model runs them scaled down, with catalogs *)
(* both shorter and longer than the batch and more pools than are kept.    *)
(***************************************************************************)
POOLS_PER_REFRESH == 2

KEEP_TOP == 2

MaxCatalog == 3

MaxTime == 1

MaxRequests == 3

(* How many cycles one behaviour triggers. *)
MaxCycles == 2

(* app.js: rawPools.slice(0, 50) at line 607 and the batch size 3 passed to *)
(* processPoolsBatch at line 609, scaled down alike.                        *)
APP_POOL_LIMIT == 2

BATCH_SIZE == 1

(* The triggers that start a cycle: cron.schedule (part_000:724-727; the   *)
(* startup timer 730-733 is the same call) and GET/POST /api/refresh       *)
(* (part_000:630-664).  Each may have a call of processPoolDataEnhanced in *)
(* progress.                                                               *)
Triggers == {"cron", "refresh"}

(* Pool ids of the provider, in the catalog's order (tvl descending).      *)
AllPoolIds == [k \in 1..MaxCatalog |-> k]

Catalog(n) == SubSeq(AllPoolIds, 1, n)

(* healthScore.totalScore as calculateHealthScore returns it for the data  *)
(* fetched, in thousandths of a point.                                     *)
TotalScores == {45000, 79996}

Min(a, b) == IF a <= b THEN a ELSE b

VARIABLES
  program,       \* which revision runs: "rotating" (part_000) or "batch" (app.js)
  poolsCache,    \* POOLS_CACHE_FILE: [exists, data, fresh (age < 1 hour)]
  indexFile,     \* PROCESSED_INDEX_FILE: <<>> when absent, else <<index>>
  cachedPools,   \* let cachedPools: the store of scored records
  lastUpdated,   \* let lastUpdated: 0 for null, else the time of the last merge
  now,           \* the wall clock (Date.now())
  started,       \* how many cycles have been triggered (bounded by MaxCycles)
  call,          \* a call of a pure function: [fn, arg, ret]
  response,      \* data of the last answer of GET /api/pools, as pool ids
  cycle          \* per trigger: the locals of its call of processPoolDataEnhanced

vars ==
  <<program, poolsCache, indexFile, cachedPools, lastUpdated, now, started,
    call, response, cycle>>

(* No pure function is being followed. *)
NoCall == [fn |-> "none"]

IdleCycle ==
  [pc |-> "idle", allPools |-> <<>>, lastIndex |-> 0, i |-> 0, checked |-> 0,
   added |-> 0, failed |-> 0, processedPools |-> <<>>, requests |-> 0,
   readIndex |-> 0]

(* The process starts with empty globals; the cursor file survives restarts, *)
(* so it holds any index an earlier run left, or is absent.                 *)
Init ==
  /\ program \in {"rotating", "batch"}
  /\ poolsCache = [exists |-> FALSE, data |-> <<>>, fresh |-> FALSE]
  /\ indexFile \in {<<>>} \cup {<<k>> : k \in 0..(MaxCatalog - 1)}
  /\ cachedPools = <<>>
  /\ lastUpdated = 0
  /\ now = 0
  /\ started = 0
  /\ call = NoCall
  /\ response = <<>>
  /\ cycle = [p \in Triggers |-> IdleCycle]

(***************************************************************************)
(* Pure helpers                                                            *)
(***************************************************************************)

(* Math.round(x * 100) / 100 on thousandths: to the nearest hundredth.     *)
Round2(x) == ((x + 5) \div 10) * 10

(* Mutant: the thresholds are exclusive lower bounds. *)
getRiskCategoryExclusive(healthScore) ==
  IF healthScore > 80000 THEN "Conservative"
  ELSE IF healthScore > 60000 THEN "Moderate"
  ELSE IF healthScore > 40000 THEN "Aggressive"
  ELSE "Speculative"

(* part_000:413-418, the label of the category; app.js:416-425 is the same *)
(* chain of comparisons.  Scores are in thousandths of a point.            *)
getRiskCategory(healthScore) ==
  IF healthScore >= 80000 THEN "Conservative"
  ELSE IF healthScore >= 60000 THEN "Moderate"
  ELSE IF healthScore >= 40000 THEN "Aggressive"
  ELSE "Speculative"

readProcessedIndex == IF indexFile = <<>> THEN 0 ELSE indexFile[1]

(* Mutant: the cursor read is used as it is, without the reset to 0. *)
StartIndexNoReset(idx, len) == idx

(* let lastIndex = readProcessedIndex(); if (lastIndex >= length) lastIndex = 0 *)
StartIndex(idx, len) == IF idx >= len THEN 0 ELSE idx

(* const poolIdx = (lastIndex + i) % allPools.length *)
PoolIdx(c) == (c.lastIndex + c.i) % Len(c.allPools)

(* Mutant: the cursor is advanced without the modulo. *)
NextCursorNoWrap(c) == c.lastIndex + POOLS_PER_REFRESH

(* Mutant: the cursor is advanced by the pools that were scored only. *)
NextCursorBySuccess(c) == (c.lastIndex + c.added) % Len(c.allPools)

(* Mutant: the cursor that was read is written back. *)
NextCursorStuck(c) == c.lastIndex % Len(c.allPools)

(* the argument of writeProcessedIndex at the end of the cycle *)
NextCursor(c) == (c.lastIndex + POOLS_PER_REFRESH) % Len(c.allPools)

(* the processedPool object built for the pool at the batch position *)
ProcessedPool(c, total) ==
  [pool_id |-> c.allPools[PoolIdx(c) + 1],
   health_score |-> Round2(total),
   risk_category |-> getRiskCategory(total),
   last_updated |-> now]

(* mergedPools.findIndex(p => p.pool_id === id): 0 when there is none *)
FindIndex(pools, id) ==
  IF \E k \in 1..Len(pools) : pools[k].pool_id = id
  THEN CHOOSE k \in 1..Len(pools) :
         /\ pools[k].pool_id = id
         /\ \A j \in 1..(k - 1) : pools[j].pool_id # id
  ELSE 0

(* Mutant: every processed pool is pushed, an existing record is not replaced. *)
MergePoolsPushOnly(merged, processed) == merged \o processed

(* for (const pool of processedPools) { replace at idx, or push } *)
RECURSIVE MergePools(_, _)
MergePools(merged, processed) ==
  IF processed = <<>> THEN merged
  ELSE LET pool == Head(processed)
           idx == FindIndex(merged, pool.pool_id)
       IN MergePools(IF idx > 0 THEN [merged EXCEPT ![idx] = pool]
                     ELSE Append(merged, pool),
                     Tail(processed))

(* Mutant: a sort that is not stable, a record goes before its equals. *)
RECURSIVE InsertBeforeEquals(_, _)
InsertBeforeEquals(sorted, pool) ==
  IF sorted = <<>> THEN <<pool>>
  ELSE IF Head(sorted).health_score > pool.health_score
       THEN <<Head(sorted)>> \o InsertBeforeEquals(Tail(sorted), pool)
       ELSE <<pool>> \o sorted

(* one step of the stable sort: after every record scoring at least as much *)
RECURSIVE InsertByHealth(_, _)
InsertByHealth(sorted, pool) ==
  IF sorted = <<>> THEN <<pool>>
  ELSE IF Head(sorted).health_score >= pool.health_score
       THEN <<Head(sorted)>> \o InsertByHealth(Tail(sorted), pool)
       ELSE <<pool>> \o sorted

(* mergedPools.sort((a, b) => b.health_score - a.health_score): stable *)
RECURSIVE SortFrom(_, _)
SortFrom(sorted, rest) ==
  IF rest = <<>> THEN sorted
  ELSE SortFrom(InsertByHealth(sorted, Head(rest)), Tail(rest))

SortByHealth(pools) == SortFrom(<<>>, pools)

(* mergedPools.slice(0, 1000) *)
KeepTop(pools) == SubSeq(pools, 1, Min(Len(pools), KEEP_TOP))

(* Mutant: the store is replaced by the pools of the cycle. *)
MergeStoreReplace(cached, processed) == KeepTop(SortByHealth(processed))

(* Mutant: the merged collection is truncated without being sorted. *)
MergeStoreUnsorted(cached, processed) == KeepTop(MergePools(cached, processed))

(* Merge, sort and truncate (373-386). *)
MergeStore(cached, processed) ==
  KeepTop(SortByHealth(MergePools(cached, processed)))

(***************************************************************************)
(* fetchDefiLlamaPoolsEnhanced and the start of a cycle.  The function is  *)
(* the same in part_000 (136-171) and app.js (275-308).                    *)
(***************************************************************************)

(* Mutant: the cache file is not looked at. *)
CacheNeverUsed == FALSE

(* the test of the cache file (138-141): it exists, holds a non-empty      *)
(* array and is younger than one hour                                      *)
CacheUsable ==
  poolsCache.exists /\ Len(poolsCache.data) > 0 /\ poolsCache.fresh

(* part_000, from the catalog to the first await of the loop (237-264).    *)
BeginBatch(p, pools) ==
  IF Len(pools) = 0
  THEN cycle' = [cycle EXCEPT ![p] = [IdleCycle EXCEPT !.pc = "done"]]
  ELSE cycle' = [cycle EXCEPT ![p] =
         [IdleCycle EXCEPT !.pc = "delay", !.allPools = pools,
            !.readIndex = readProcessedIndex,
            !.lastIndex = StartIndex(readProcessedIndex, Len(pools)),
            !.checked = 1]]

(* app.js updatePoolData, from the catalog to the Promise.all of the first *)
(* batch (600-609, 493-520): the index read at 606 is not used, the batch  *)
(* is rawPools.slice(0, 50) and processPoolsBatch gets startIndex 0.       *)
BeginUpdate(p, rawPools) ==
  IF Len(rawPools) = 0
  THEN cycle' = [cycle EXCEPT ![p] = [IdleCycle EXCEPT !.pc = "done"]]
  ELSE cycle' = [cycle EXCEPT ![p] =
         [IdleCycle EXCEPT !.pc = "batch",
            !.allPools = SubSeq(rawPools, 1, Min(Len(rawPools), APP_POOL_LIMIT)),
            !.readIndex = readProcessedIndex,
            !.lastIndex = 0]]

Begin(p, pools) ==
  IF program = "rotating" THEN BeginBatch(p, pools) ELSE BeginUpdate(p, pools)

(* A call of the cycle while the catalog cache is usable: the cached        *)
(* catalog is returned without a request (138-144) and the cycle begins.   *)
StartCached(p) ==
  /\ cycle[p].pc = "idle"
  /\ CacheUsable
  /\ Begin(p, poolsCache.data)
  /\ UNCHANGED <<call, response, program, poolsCache, indexFile, cachedPools, lastUpdated, now>>

(* A trigger fires while the catalog cache is usable. *)
TriggerCached(p) ==
  /\ started < MaxCycles
  /\ StartCached(p)
  /\ started' = started + 1

(* A trigger fires with no usable cache: the catalog is requested.         *)
TriggerFetch(p) ==
  /\ cycle[p].pc = "idle"
  /\ started < MaxCycles
  /\ ~CacheUsable
  /\ cycle' = [cycle EXCEPT ![p].pc = "catalog"]
  /\ started' = started + 1
  /\ UNCHANGED <<call, response, program, poolsCache, indexFile, cachedPools, lastUpdated, now>>

(* The provider answers with n quality pools: cached, then the cycle goes on. *)
CatalogResponse(p, n) ==
  /\ cycle[p].pc = "catalog"
  /\ poolsCache' = [exists |-> TRUE, data |-> Catalog(n), fresh |-> TRUE]
  /\ Begin(p, Catalog(n))
  /\ UNCHANGED <<call, response, program, indexFile, cachedPools, lastUpdated, now, started>>

(* Mutant: a failed catalog request empties the store. *)
CatalogErrorClears(p) ==
  /\ cycle[p].pc = "catalog"
  /\ Begin(p, <<>>)
  /\ cachedPools' = <<>>
  /\ UNCHANGED <<call, response, program, poolsCache, indexFile, lastUpdated, now, started>>

(* The catalog request fails: fetchDefiLlamaPoolsEnhanced returns []. *)
CatalogError(p) ==
  /\ cycle[p].pc = "catalog"
  /\ Begin(p, <<>>)
  /\ UNCHANGED <<call, response, program, poolsCache, indexFile, cachedPools, lastUpdated, now, started>>

(* The cached catalog becomes older than one hour. *)
CacheExpires ==
  /\ poolsCache.exists /\ poolsCache.fresh
  /\ poolsCache' = [poolsCache EXCEPT !.fresh = FALSE]
  /\ UNCHANGED <<call, response, program, indexFile, cachedPools, lastUpdated, now, started, cycle>>

(***************************************************************************)
(* part_000: the loop of processPoolDataEnhanced (258-369) and its end     *)
(* (371-405)                                                               *)
(***************************************************************************)

(* await delay(DELAY_BETWEEN_REQUESTS) is over: the chart request is issued. *)
DelayOver(p) ==
  /\ cycle[p].pc = "delay"
  /\ cycle' = [cycle EXCEPT ![p].pc = "http", ![p].requests = 1]
  /\ UNCHANGED <<call, response, program, poolsCache, indexFile, cachedPools, lastUpdated, now, started>>

(* Mutant: a pool that fails ends the loop (a throw that is not caught     *)
(* per pool).                                                              *)
EndIterationAbort(p, c) ==
  IF c.i + 1 < POOLS_PER_REFRESH /\ c.failed = 0
  THEN /\ cycle' = [cycle EXCEPT ![p] =
            [c EXCEPT !.pc = "delay", !.i = c.i + 1, !.checked = c.checked + 1,
                      !.requests = 0]]
       /\ UNCHANGED <<indexFile, cachedPools, lastUpdated>>
  ELSE /\ indexFile' = <<NextCursor(c)>>
       /\ cachedPools' = MergeStore(cachedPools, c.processedPools)
       /\ lastUpdated' = now
       /\ cycle' = [cycle EXCEPT ![p] = [c EXCEPT !.pc = "done"]]

(* Mutant: the next chart request is issued without the delay. *)
EndIterationNoDelay(p, c) ==
  IF c.i + 1 < POOLS_PER_REFRESH
  THEN /\ cycle' = [cycle EXCEPT ![p] =
            [c EXCEPT !.pc = "http", !.i = c.i + 1, !.checked = c.checked + 1,
                      !.requests = 1]]
       /\ UNCHANGED <<indexFile, cachedPools, lastUpdated>>
  ELSE /\ indexFile' = <<NextCursor(c)>>
       /\ cachedPools' = MergeStore(cachedPools, c.processedPools)
       /\ lastUpdated' = now
       /\ cycle' = [cycle EXCEPT ![p] = [c EXCEPT !.pc = "done"]]

(* The end of one loop iteration with locals c: the next iteration up to   *)
(* its delay, or, after the last one, the cursor write and the merge, all  *)
(* in the same callback.                                                   *)
EndIteration(p, c) ==
  IF c.i + 1 < POOLS_PER_REFRESH
  THEN /\ cycle' = [cycle EXCEPT ![p] =
            [c EXCEPT !.pc = "delay", !.i = c.i + 1, !.checked = c.checked + 1,
                      !.requests = 0]]
       /\ UNCHANGED <<indexFile, cachedPools, lastUpdated>>
  ELSE /\ indexFile' = <<NextCursor(c)>>
       /\ cachedPools' = MergeStore(cachedPools, c.processedPools)
       /\ lastUpdated' = now
       /\ cycle' = [cycle EXCEPT ![p] = [c EXCEPT !.pc = "done"]]

(* The chart request is answered 429: wait 3 s, then call again (190-194). *)
RateLimited(p) ==
  /\ cycle[p].pc = "http"
  /\ cycle[p].requests < MaxRequests
  /\ cycle' = [cycle EXCEPT ![p].pc = "backoff"]
  /\ UNCHANGED <<call, response, program, poolsCache, indexFile, cachedPools, lastUpdated, now, started>>

Retry(p) ==
  /\ cycle[p].pc = "backoff"
  /\ cycle' = [cycle EXCEPT ![p].pc = "http", ![p].requests = cycle[p].requests + 1]
  /\ UNCHANGED <<call, response, program, poolsCache, indexFile, cachedPools, lastUpdated, now, started>>

(* The chart is {} (request failed, no data array) or its tvl series has   *)
(* fewer than 7 samples: failed++, continue (269-273).                     *)
ChartInsufficient(p) ==
  /\ cycle[p].pc = "http"
  /\ EndIteration(p, [cycle[p] EXCEPT !.failed = @ + 1])
  /\ UNCHANGED <<call, response, program, poolsCache, now, started>>

(* Scoring the chart throws (a sample without a valid date makes           *)
(* toISOString throw at line 280): caught, failed++ (365-368).             *)
ChartThrows(p) ==
  /\ cycle[p].pc = "http"
  /\ EndIteration(p, [cycle[p] EXCEPT !.failed = @ + 1])
  /\ UNCHANGED <<call, response, program, poolsCache, now, started>>

(* The chart has at least 7 samples and scores to total (276-361). *)
ChartScored(p, total) ==
  /\ cycle[p].pc = "http"
  /\ EndIteration(p, [cycle[p] EXCEPT
        !.processedPools = Append(@, ProcessedPool(cycle[p], total)),
        !.added = @ + 1])
  /\ UNCHANGED <<call, response, program, poolsCache, now, started>>

(***************************************************************************)
(* app.js: processPoolsBatch (493-554) and the end of updatePoolData       *)
(* (611-624)                                                               *)
(***************************************************************************)

(* const batch = pools.slice(i, i + batchSize) *)
BatchOf(c) ==
  SubSeq(c.allPools, c.i + 1, Min(c.i + BATCH_SIZE, Len(c.allPools)))

(* the object app.js processPoolDataEnhanced returns for a pool (441-481) *)
AppProcessedPool(id, total) ==
  [pool_id |-> id,
   health_score |-> total,
   risk_category |-> getRiskCategory(total),
   last_updated |-> now]

(* batchResults.filter(result => result !== null), outs[k] = 0 for null *)
RECURSIVE BatchResults(_, _, _)
BatchResults(batch, outs, k) ==
  IF k > Len(batch) THEN <<>>
  ELSE (IF outs[k] = 0 THEN <<>> ELSE <<AppProcessedPool(batch[k], outs[k])>>)
       \o BatchResults(batch, outs, k + 1)

(* results.sort(...); cachedPools = results, when results is not empty *)
AppStore(cached, results) ==
  IF Len(results) > 0 THEN SortByHealth(results) ELSE cached

(* Promise.all of the batch settles; outs[k] is what processPoolDataEnhanced *)
(* returned for its k-th pool (null for no chart data or an exception).    *)
(* After the last batch the index is saved, processPoolsBatch returns and  *)
(* updatePoolData stores the results.                                      *)
AppBatchSettled(p, outs) ==
  /\ cycle[p].pc = "batch"
  /\ LET c == cycle[p]
         got == BatchResults(BatchOf(c), outs, 1)
         results == c.processedPools \o got
         d == [c EXCEPT !.processedPools = results, !.added = @ + Len(got)]
     IN IF c.i + BATCH_SIZE < Len(c.allPools)
        THEN /\ cycle' = [cycle EXCEPT ![p] = [d EXCEPT !.pc = "pause"]]
             /\ UNCHANGED <<indexFile, cachedPools, lastUpdated>>
        ELSE /\ indexFile' = <<c.lastIndex + c.i + BATCH_SIZE>>
             /\ cachedPools' = AppStore(cachedPools, results)
             /\ lastUpdated' = IF Len(results) > 0 THEN now ELSE lastUpdated
             /\ cycle' = [cycle EXCEPT ![p] = [d EXCEPT !.pc = "done"]]
  /\ UNCHANGED <<call, response, program, poolsCache, now, started>>

(* await delay(2000) between batches is over: the index is saved (530-531) *)
(* and the next batch is started.                                          *)
AppPauseOver(p) ==
  /\ cycle[p].pc = "pause"
  /\ indexFile' = <<cycle[p].lastIndex + cycle[p].i + BATCH_SIZE>>
  /\ cycle' = [cycle EXCEPT ![p].pc = "batch", ![p].i = cycle[p].i + BATCH_SIZE]
  /\ UNCHANGED <<call, response, program, poolsCache, cachedPools, lastUpdated, now, started>>

(***************************************************************************)
(* Both revisions                                                          *)
(***************************************************************************)

(* The cycle has returned: the trigger's callback ends (res.json for       *)
(* /api/refresh of part_000).                                              *)
Return(p) ==
  /\ cycle[p].pc = "done"
  /\ cycle' = [cycle EXCEPT ![p] = IdleCycle]
  /\ UNCHANGED <<call, response, program, poolsCache, indexFile, cachedPools, lastUpdated, now, started>>

Tick ==
  /\ now < MaxTime
  /\ now' = now + 1
  /\ UNCHANGED <<call, response, program, poolsCache, indexFile, cachedPools, lastUpdated, started, cycle>>

Next ==
  \/ \E p \in Triggers : TriggerCached(p)
  \/ \E p \in Triggers : TriggerFetch(p)
  \/ \E p \in Triggers, n \in 0..MaxCatalog : CatalogResponse(p, n)
  \/ \E p \in Triggers : CatalogError(p)
  \/ CacheExpires
  \/ \E p \in Triggers : DelayOver(p)
  \/ \E p \in Triggers : ChartInsufficient(p)
  \/ \E p \in Triggers : ChartThrows(p)
  \/ \E p \in Triggers, total \in TotalScores : ChartScored(p, total)
  \/ \E p \in Triggers, outs \in [1..BATCH_SIZE -> {0} \cup TotalScores] :
       AppBatchSettled(p, outs)
  \/ \E p \in Triggers : AppPauseOver(p)
  \/ \E p \in Triggers : Return(p)

Spec == Init /\ [][Next]_vars

(* The provider may also answer chart requests with 429. *)
NextRetry ==
  \/ Next
  \/ \E p \in Triggers : RateLimited(p)
  \/ \E p \in Triggers : Retry(p)

RetrySpec == Init /\ [][NextRetry]_vars

(***************************************************************************)
(* GET /api/pools (part_000:508-576), a query handler: one callback with   *)
(* no await, run between any two callbacks of the cycles.                  *)
(***************************************************************************)

RiskFilters == {"all", "Aggressive"}

SortKeys == {"health_score", "tvl"}

(* The catalog is sorted by tvlUsd, highest first (part_000:156), and a    *)
(* record's tvl is pool.tvlUsd: the pool with the lower id has more tvl.   *)
RECURSIVE InsertByTvl(_, _)
InsertByTvl(sorted, pool) ==
  IF sorted = <<>> THEN <<pool>>
  ELSE IF Head(sorted).pool_id <= pool.pool_id
       THEN <<Head(sorted)>> \o InsertByTvl(Tail(sorted), pool)
       ELSE <<pool>> \o sorted

RECURSIVE SortByTvlFrom(_, _)
SortByTvlFrom(sorted, rest) ==
  IF rest = <<>> THEN sorted
  ELSE SortByTvlFrom(InsertByTvl(sorted, Head(rest)), Tail(rest))

(* pools.sort(...) with the comparator that sortBy selects (547-559) *)
SortPools(pools, sortBy) ==
  IF sortBy = "tvl" THEN SortByTvlFrom(<<>>, pools) ELSE SortByHealth(pools)

(* pools.filter(p => p.risk_category.label ... === riskCategory) (536-538) *)
RECURSIVE FilterRisk(_, _)
FilterRisk(pools, riskCategory) ==
  IF pools = <<>> THEN <<>>
  ELSE (IF riskCategory = "all" \/ Head(pools).risk_category = riskCategory
        THEN <<Head(pools)>> ELSE <<>>)
       \o FilterRisk(Tail(pools), riskCategory)

(* data of the answer: the copy, filtered, sorted, cut to limit *)
ApiPoolsData(store, riskCategory, sortBy, limit) ==
  LET pools == SortPools(FilterRisk(store, riskCategory), sortBy)
  IN [k \in 1..Min(Len(pools), limit) |-> pools[k].pool_id]

(* Mutant: the handler sorts the store itself (let pools = cachedPools). *)
StoreSortedInPlace(store, sortBy) == SortPools(store, sortBy)

(* let pools = [...cachedPools]: filter, sort and slice work on the copy,  *)
(* the store is what it was.                                               *)
StoreAfterApiPools(store, sortBy) == store

ApiPools(riskCategory, sortBy, limit) ==
  /\ response' = ApiPoolsData(cachedPools, riskCategory, sortBy, limit)
  /\ cachedPools' = StoreAfterApiPools(cachedPools, sortBy)
  /\ UNCHANGED <<call, program, poolsCache, indexFile, lastUpdated, now, started, cycle>>

NextQuery ==
  \/ Next
  \/ \E riskCategory \in RiskFilters, sortBy \in SortKeys, limit \in 1..KEEP_TOP :
       ApiPools(riskCategory, sortBy, limit)

QuerySpec == Init /\ [][NextQuery]_vars

(***************************************************************************)
(* getRiskCategory on its own: every score of [0, 100], by hundredths.     *)
(***************************************************************************)

(* The globals of a process that has just started, no cycle running. *)
Fresh ==
  /\ program = "rotating"
  /\ poolsCache = [exists |-> FALSE, data |-> <<>>, fresh |-> FALSE]
  /\ indexFile = <<>>
  /\ cachedPools = <<>>
  /\ lastUpdated = 0
  /\ now = 0
  /\ started = 0
  /\ response = <<>>
  /\ cycle = [p \in Triggers |-> IdleCycle]

ScoreGrid == {10 * k : k \in 0..10000}

ClassifyInit ==
  /\ Fresh
  /\ \E s \in ScoreGrid :
       call = [fn |-> "getRiskCategory", arg |-> s, ret |-> "pending"]

Classify ==
  /\ call.fn = "getRiskCategory" /\ call.ret = "pending"
  /\ call' = [call EXCEPT !.ret = getRiskCategory(call.arg)]
  /\ UNCHANGED <<program, poolsCache, indexFile, cachedPools, lastUpdated, now,
                 started, response, cycle>>

ClassifyNext == Classify

ClassifySpec == ClassifyInit /\ [][ClassifyNext]_vars

(***************************************************************************)
(* JavaScript numbers, as far as the scoring functions need them: a finite *)
(* value in thousandths, or NaN, or an infinity (v is its sign).           *)
(***************************************************************************)

Num(x) == [k |-> "num", v |-> x]

NaN == [k |-> "NaN", v |-> 0]

Infinity(sign) == [k |-> "Infinity", v |-> sign]

IsNaN(a) == a.k = "NaN"

IsFinite(a) == a.k = "num"

Sign(x) == IF x > 0 THEN 1 ELSE IF x < 0 THEN -1 ELSE 0

(* a < b; false when either is NaN *)
Less(a, b) ==
  IF IsNaN(a) \/ IsNaN(b) THEN FALSE
  ELSE IF IsFinite(a) /\ IsFinite(b) THEN a.v < b.v
  ELSE IF IsFinite(a) THEN b.v > 0
  ELSE IF IsFinite(b) THEN a.v < 0
  ELSE a.v < b.v

(* Math.max and Math.min return NaN when an argument is NaN *)
MathMax(a, b) ==
  IF IsNaN(a) \/ IsNaN(b) THEN NaN ELSE IF Less(a, b) THEN b ELSE a

(* Mutant: the larger argument where the smaller is meant. *)
MathMinLarger(a, b) ==
  IF IsNaN(a) \/ IsNaN(b) THEN NaN ELSE IF Less(a, b) THEN b ELSE a

MathMin(a, b) ==
  IF IsNaN(a) \/ IsNaN(b) THEN NaN ELSE IF Less(b, a) THEN b ELSE a

Plus(a, b) ==
  IF IsNaN(a) \/ IsNaN(b) THEN NaN
  ELSE IF IsFinite(a) /\ IsFinite(b) THEN Num(a.v + b.v)
  ELSE IF IsFinite(a) THEN b
  ELSE IF IsFinite(b) THEN a
  ELSE IF a.v = b.v THEN a ELSE NaN

Negate(a) == IF IsNaN(a) THEN NaN ELSE [a EXCEPT !.v = 0 - a.v]

Minus(a, b) == Plus(a, Negate(b))

(* a * c for a whole constant c > 0 *)
Times(a, c) == IF IsFinite(a) THEN Num(a.v * c) ELSE a

(* x / y for whole x and y: 0 / 0 is NaN, x / 0 is an infinity *)
Divide(x, y) ==
  IF y # 0 THEN Num((x * 1000) \div y)
  ELSE IF x = 0 THEN NaN ELSE Infinity(Sign(x))

(* Math.sqrt on whole numbers, rounded down *)
RECURSIVE SqrtBetween(_, _, _)
SqrtBetween(x, lo, hi) ==
  IF lo >= hi THEN lo
  ELSE LET mid == (lo + hi + 1) \div 2
       IN IF mid * mid <= x THEN SqrtBetween(x, mid, hi)
          ELSE SqrtBetween(x, lo, mid - 1)

Sqrt(x) == SqrtBetween(x, 0, 40000)

(* values.reduce((sum, val) => sum + val, 0), summed by halves *)
RECURSIVE Sum(_)
Sum(values) ==
  IF values = <<>> THEN 0
  ELSE IF Len(values) = 1 THEN values[1]
  ELSE Sum(SubSeq(values, 1, Len(values) \div 2))
       + Sum(SubSeq(values, Len(values) \div 2 + 1, Len(values)))

(* values.reduce((sum, val) => sum + Math.pow(val - mean, 2), 0) with the  *)
(* mean sum / n, in hundredths: the deviations are taken in tenths.        *)
SquaredDeviations(values, mean10) ==
  Sum([k \in 1..Len(values) |-> (10 * values[k] - mean10) * (10 * values[k] - mean10)])

(* Math.sqrt(variance) / mean, the coefficient of variation: the standard  *)
(* deviation in tenths over the mean sum / n.                              *)
CoefficientOfVariation(values) ==
  LET n == Len(values)
      sd10 == Sqrt(SquaredDeviations(values, (10 * Sum(values)) \div n) \div n)
  IN Divide(sd10 * n, 10 * Sum(values))

(* A history of n samples that alternate between a and b. *)
Hist(n, a, b) == [k \in 1..n |-> IF k % 2 = 1 THEN a ELSE b]

HistoryLengths == {0, 1, 2, 12, 32, 92}

HistoryValues == {<<0, 0>>, <<5, 5>>, <<4, 12>>, <<0, 90>>}

Histories == {Hist(n, ab[1], ab[2]) : n \in HistoryLengths, ab \in HistoryValues}

(* The tvl histories of the app.js scoring: fewer, the rest as Histories. *)
TvlHistories == {Hist(n, ab[1], ab[2]) : n \in {0, 2, 32, 92}, ab \in {<<0, 0>>, <<4, 12>>}}

TvlValues == {0, 5000, 2000000, 6000000}

VolumeValues == {0, 2000, 200000}

(***************************************************************************)
(* server.js: the four-factor calculateHealthScore (21-54) with its        *)
(* calculateVariance (59-64); part_003:18-61 is the same code.             *)
(***************************************************************************)

(* server.js:59-64: no test of the mean *)
ServerCalculateVariance(values) ==
  IF Len(values) < 2 THEN Num(0) ELSE CoefficientOfVariation(values)

(* server.js:21-54, totalScore *)
ServerCalculateHealthScore(poolData) ==
  LET tvlVariance == ServerCalculateVariance(poolData.tvlHistory)
      tvlStability == MathMax(Num(0), Minus(Num(25000), Times(tvlVariance, 100)))
      aprVariance == ServerCalculateVariance(poolData.aprHistory)
      aprConsistency == MathMax(Num(0), Minus(Num(25000), Times(aprVariance, 50)))
      volumeToTvlRatio == Divide(poolData.volume24h, poolData.tvl)
      volumeEfficiency == MathMin(Num(25000), Times(volumeToTvlRatio, 100))
      ilRisk == MathMax(Num(0), Minus(Num(25000), Times(poolData.volatility, 50)))
      totalScore == Plus(Plus(Plus(tvlStability, aprConsistency), volumeEfficiency), ilRisk)
  IN MathMin(Num(100000), MathMax(Num(0), totalScore))

(* the poolData that processPoolData builds (server.js:139-163) *)
ServerPoolData(tvl, volume24h, aprHistory, tvlHistory) ==
  [tvl |-> tvl, volume24h |-> volume24h, aprHistory |-> aprHistory,
   tvlHistory |-> tvlHistory, volatility |-> ServerCalculateVariance(tvlHistory)]

ServerScoreInit ==
  /\ Fresh
  /\ \E tvl \in TvlValues, volume24h \in VolumeValues,
        aprHistory \in Histories, tvlHistory \in Histories :
       call = [fn |-> "server.calculateHealthScore",
               arg |-> ServerPoolData(tvl, volume24h, aprHistory, tvlHistory),
               done |-> FALSE, ret |-> Num(0)]

ServerScore ==
  /\ call.fn = "server.calculateHealthScore" /\ ~call.done
  /\ call' = [call EXCEPT !.done = TRUE, !.ret = ServerCalculateHealthScore(call.arg)]
  /\ UNCHANGED <<program, poolsCache, indexFile, cachedPools, lastUpdated, now,
                 started, response, cycle>>

ServerScoreNext == ServerScore

ServerScoreSpec == ServerScoreInit /\ [][ServerScoreNext]_vars

(***************************************************************************)
(* app.js: calculateHealthScore (20-113) and the functions it calls        *)
(***************************************************************************)

(* a * b *)
Product(a, b) ==
  IF IsNaN(a) \/ IsNaN(b) THEN NaN
  ELSE IF IsFinite(a) /\ IsFinite(b) THEN Num((a.v * b.v) \div 1000)
  ELSE IF a.v = 0 \/ b.v = 0 THEN NaN
  ELSE Infinity(Sign(a.v) * Sign(b.v))

(* The line through the tabulated points around x; y of the last point     *)
(* beyond the table.  points is a sequence of <<x, y>> with rising x.      *)
RECURSIVE Interpolate(_, _)
Interpolate(points, x) ==
  IF Len(points) = 1 \/ x <= points[1][1] THEN points[1][2]
  ELSE IF x < points[2][1]
       THEN points[1][2]
            + ((x - points[1][1]) * (points[2][2] - points[1][2]))
                \div (points[2][1] - points[1][1])
       ELSE Interpolate(Tail(points), x)

(* e^-t for t >= 0, both in thousandths *)
ExpTable ==
  <<<<0, 1000>>, <<250, 779>>, <<500, 607>>, <<1000, 368>>, <<2000, 135>>,
    <<3000, 50>>, <<5000, 7>>, <<8000, 0>>>>

(* Math.exp *)
Exp(a) ==
  IF IsNaN(a) THEN NaN
  ELSE IF ~IsFinite(a) THEN (IF a.v > 0 THEN a ELSE Num(0))
  ELSE IF a.v <= 0 THEN Num(Interpolate(ExpTable, 0 - a.v))
  ELSE IF Interpolate(ExpTable, a.v) = 0 THEN Infinity(1)
  ELSE Num(1000000 \div Interpolate(ExpTable, a.v))

(* log10 of whole numbers from 10^4 to 10^7, in thousandths *)
Log10Table ==
  <<<<10000, 4000>>, <<20000, 4301>>, <<50000, 4699>>, <<100000, 5000>>,
    <<200000, 5301>>, <<500000, 5699>>, <<1000000, 6000>>, <<2000000, 6301>>,
    <<5000000, 6699>>, <<10000000, 7000>>>>

(* Math.log(x) / Math.log(10) for a whole x >= 10000 *)
Log10(x) == Num(Interpolate(Log10Table, x))

(* Mutant: the variance without the test of the mean. *)
calculateVarianceUnguarded(values) ==
  IF Len(values) < 2 THEN Num(0) ELSE CoefficientOfVariation(values)

(* app.js:204-210: 0 for fewer than two values and for a mean of 0 *)
calculateVariance(values) ==
  IF Len(values) < 2 THEN Num(0)
  ELSE IF Sum(values) = 0 THEN Num(0)
  ELSE CoefficientOfVariation(values)

(* values.slice(-n) *)
LastN(values, n) ==
  IF Len(values) <= n THEN values ELSE SubSeq(values, Len(values) - n + 1, Len(values))

(* the loop of calculateRobustVolatility (221-228): the coefficients of    *)
(* variation of the windows values.slice(i - windowSize, i) whose mean is  *)
(* positive, for i from from to to, taken by halves                        *)
RECURSIVE RollingVolatilities(_, _, _, _)
RollingVolatilities(values, windowSize, from, to) ==
  IF from > to THEN <<>>
  ELSE IF from = to
       THEN LET window == SubSeq(values, from - windowSize + 1, from)
            IN IF Sum(window) > 0 THEN <<CoefficientOfVariation(window).v>> ELSE <<>>
       ELSE RollingVolatilities(values, windowSize, from, (from + to) \div 2)
            \o RollingVolatilities(values, windowSize, (from + to) \div 2 + 1, to)

(* rollingVolatilities.sort((a, b) => a - b)[j - 1]: the j-th smallest *)
SortedAt(xs, j) ==
  LET x == CHOOSE i \in 1..Len(xs) :
             /\ Cardinality({h \in 1..Len(xs) : xs[h] < xs[i]}) < j
             /\ j <= Cardinality({h \in 1..Len(xs) : xs[h] <= xs[i]})
  IN xs[x]

(* app.js:213-239: the median of the rolling volatilities, in thousandths *)
calculateRobustVolatility(values) ==
  IF Len(values) < 10 THEN 0
  ELSE LET windowSize == Min(30, Len(values) \div 4)
           rolling == RollingVolatilities(values, windowSize, windowSize, Len(values) - 1)
           medianIndex == Len(rolling) \div 2
       IN IF Len(rolling) = 0 THEN 0
          ELSE IF Len(rolling) % 2 = 0
               THEN (SortedAt(rolling, medianIndex) + SortedAt(rolling, medianIndex + 1)) \div 2
               ELSE SortedAt(rolling, medianIndex + 1)

TokenPairs == {"", "USDC-USDT", "WETH-USDC", "FOO-BAR"}

(* tokenPair.toLowerCase().split('-') *)
Tokens(tokenPair) ==
  CASE tokenPair = "USDC-USDT" -> <<"usdc", "usdt">>
    [] tokenPair = "WETH-USDC" -> <<"weth", "usdc">>
    [] OTHER -> <<"foo", "bar">>

(* tokens.filter(token => list.includes(token)).length *)
CountIn(tokens, list) == Cardinality({k \in 1..Len(tokens) : tokens[k] \in list})

(* app.js:116-163, the pairs of correlatedPairs among the modelled tokens *)
assessImpermanentLossRisk(tokenPair, aprHistory, tvlHistory) ==
  LET tokens == Tokens(tokenPair)
      stablecoinCount ==
        CountIn(tokens, {"usdc", "usdt", "dai", "frax", "lusd", "busd", "usdd"})
      isCorrelated == CountIn(tokens, {"usdc", "usdt"}) = 2
  IN IF tokenPair = "" THEN 10000
     ELSE IF stablecoinCount = 2 THEN 20000
     ELSE IF isCorrelated THEN 18000
     ELSE IF stablecoinCount = 1 THEN 15000
     ELSE IF CountIn(tokens, {"weth", "eth", "wbtc", "btc"}) >= 1 THEN 12000
     ELSE IF CountIn(tokens, {"uni", "link", "aave", "crv", "bal", "comp", "mkr", "snx"}) >= 1
          THEN 10000
     ELSE IF Len(aprHistory) > 30
             /\ Less(Num(500), calculateVariance(LastN(aprHistory, 30))) THEN 5000
     ELSE IF Len(tvlHistory) > 30
             /\ Less(Num(300), calculateVariance(LastN(tvlHistory, 30))) THEN 6000
     ELSE 8000

(* Mutant: no penalty outside the two tiers of large pools. *)
assessWhaleConcentrationRiskTiered(tvl, volume24h) ==
  LET volumeToTvlRatio == IF tvl > 0 THEN Divide(volume24h, tvl) ELSE Num(0)
  IN IF tvl > 5000000 /\ Less(volumeToTvlRatio, Num(1)) THEN 5000
     ELSE IF tvl > 1000000 /\ Less(volumeToTvlRatio, Num(5)) THEN 3000
     ELSE 0

(* app.js:166-180 *)
assessWhaleConcentrationRisk(tvl, volume24h) ==
  LET volumeToTvlRatio == IF tvl > 0 THEN Divide(volume24h, tvl) ELSE Num(0)
  IN IF tvl > 5000000 /\ Less(volumeToTvlRatio, Num(1)) THEN 5000
     ELSE IF tvl > 1000000 /\ Less(volumeToTvlRatio, Num(5)) THEN 3000
     ELSE IF Less(volumeToTvlRatio, Num(10)) THEN 1000
     ELSE 0

(* app.js:183-202, in thousandths *)
getPoolTypeMultiplier(tokenPair, platform) ==
  LET tokens == Tokens(tokenPair)
      stablecoinCount == CountIn(tokens, {"usdc", "usdt", "dai", "frax", "lusd", "busd"})
  IN IF tokenPair = "" THEN 1000
     ELSE IF stablecoinCount = 2 THEN 1050
     ELSE IF CountIn(tokens, {"weth", "eth", "wbtc", "btc"}) >= 1 THEN 1020
     ELSE IF platform = "curve" /\ stablecoinCount >= 1 THEN 1030
     ELSE 1000

(* app.js:20-95: the values calculateHealthScore computes on its way *)
HealthScoreTerms(poolData) ==
  LET tvl == poolData.tvl
      volume24h == poolData.volume24h
      aprHistory == poolData.aprHistory
      tvlHistory == poolData.tvlHistory
      tvlVariance == calculateVariance(tvlHistory)
      liquidityRisk ==
        MathMax(Num(0), MathMin(Num(25000), Times(Exp(Negate(Times(tvlVariance, 2))), 25)))
      liquidityBonus ==
        MathMin(Num(5000), Minus(Log10(IF tvl > 10000 THEN tvl ELSE 10000), Num(4000)))
      totalLiquidityScore == MathMin(Num(25000), Plus(liquidityRisk, liquidityBonus))
      avgApr ==
        IF Len(aprHistory) > 0 THEN (Sum(aprHistory) * 1000) \div Len(aprHistory) ELSE 0
      yieldSustainabilityScore ==
        IF avgApr < 500 THEN 1
        ELSE IF avgApr < 2000 THEN 4
        ELSE IF avgApr < 5000 THEN 12
        ELSE IF avgApr <= 15000 THEN 20
        ELSE IF avgApr <= 25000 THEN 16
        ELSE IF avgApr <= 40000 THEN 10
        ELSE IF avgApr <= 60000 THEN 6
        ELSE 2
      aprVolatilityRobust == calculateRobustVolatility(aprHistory)
      stabilityMultiplier ==
        MathMax(Num(500), MathMin(Num(1300),
          Plus(Num(1000),
               Minus(Num((3 * Exp(Num(0 - 3 * aprVolatilityRobust)).v) \div 10), Num(150)))))
      totalYieldScore ==
        MathMax(Num(0), MathMin(Num(20000), Times(stabilityMultiplier, yieldSustainabilityScore)))
      impermanentLossRisk ==
        assessImpermanentLossRisk(poolData.tokenPair, aprHistory, tvlHistory)
      protocolScore ==
        MathMin(Num(15000), MathMax(Num(0), Num(15 * poolData.protocolRisk)))
      volumeToTvlRatio == Divide(volume24h, IF tvl > 1 THEN tvl ELSE 1)
      activityScore ==
        IF Less(volumeToTvlRatio, Num(5)) THEN 3000
        ELSE IF Less(volumeToTvlRatio, Num(20)) THEN 6000
        ELSE IF Less(volumeToTvlRatio, Num(100)) THEN 10000
        ELSE IF Less(volumeToTvlRatio, Num(500)) THEN 7000
        ELSE 3000
      dataPoints == Min(Len(aprHistory), Len(tvlHistory))
      trackRecordScore ==
        IF dataPoints < 90 THEN 0
        ELSE IF dataPoints < 180 THEN 2000
        ELSE IF dataPoints < 365 THEN 5000
        ELSE IF dataPoints < 730 THEN 8000
        ELSE 10000
      sharpeRatio == Divide(avgApr, 100 * aprVolatilityRobust)
      riskAdjustedScore ==
        IF Len(aprHistory) > 30 /\ aprVolatilityRobust > 0
        THEN (IF Less(Num(300), sharpeRatio) THEN 5000
              ELSE IF Less(Num(200), sharpeRatio) THEN 4000
              ELSE IF Less(Num(100), sharpeRatio) THEN 2000
              ELSE 0)
        ELSE 0
      whaleRiskPenalty == assessWhaleConcentrationRisk(tvl, volume24h)
      adjustedLiquidityScore ==
        MathMax(Num(0), Minus(totalLiquidityScore, Num(whaleRiskPenalty)))
      totalScore ==
        Plus(Plus(Plus(adjustedLiquidityScore, totalYieldScore),
                  Plus(Num(impermanentLossRisk), protocolScore)),
             Num(activityScore + trackRecordScore + riskAdjustedScore))
      poolTypeMultiplier == getPoolTypeMultiplier(poolData.tokenPair, poolData.platform)
  IN [avgApr |-> avgApr,
      yieldSustainabilityScore |-> yieldSustainabilityScore,
      aprVolatilityRobust |-> aprVolatilityRobust,
      stabilityMultiplier |-> stabilityMultiplier,
      adjustedLiquidityScore |-> adjustedLiquidityScore,
      totalYieldScore |-> totalYieldScore,
      impermanentLossRisk |-> Num(impermanentLossRisk),
      protocolScore |-> protocolScore,
      activityScore |-> Num(activityScore),
      trackRecordScore |-> Num(trackRecordScore),
      riskAdjustedScore |-> Num(riskAdjustedScore),
      whaleRiskPenalty |-> Num(whaleRiskPenalty),
      poolTypeMultiplier |-> Num(poolTypeMultiplier),
      totalScore |-> totalScore]

(* Mutant: the score without the pool type multiplier. *)
FinalScoreUnscaled(t) ==
  MathMin(Num(100000), MathMax(Num(0), t.totalScore))

(* app.js:96-97: finalScore from the terms t *)
FinalScore(t) ==
  MathMin(Num(100000), MathMax(Num(0), Product(t.totalScore, t.poolTypeMultiplier)))

(* app.js:20-113, totalScore *)
calculateHealthScore(poolData) == FinalScore(HealthScoreTerms(poolData))

(* Math.round(x * 100) / 100 of a value in thousandths *)
RoundHundredths(a) ==
  IF IsFinite(a) THEN Num(((a.v + 5) \div 10) * 10) ELSE a

(* app.js:101-111, breakdown, from the terms t *)
Breakdown(t) ==
     [liquidityScore |-> RoundHundredths(t.adjustedLiquidityScore),
      yieldScore |-> RoundHundredths(t.totalYieldScore),
      impermanentLossScore |-> RoundHundredths(t.impermanentLossRisk),
      protocolScore |-> RoundHundredths(t.protocolScore),
      activityScore |-> RoundHundredths(t.activityScore),
      trackRecordScore |-> RoundHundredths(t.trackRecordScore),
      riskAdjustedScore |-> RoundHundredths(t.riskAdjustedScore),
      whaleRiskPenalty |-> RoundHundredths(t.whaleRiskPenalty),
      poolTypeMultiplier |-> t.poolTypeMultiplier]

(* the argument that app.js processPoolDataEnhanced passes (403-413) *)
AppPoolData(tvl, volume24h, aprHistory, tvlHistory, tokenPair) ==
  [tvl |-> tvl, volume24h |-> volume24h, aprHistory |-> aprHistory,
   tvlHistory |-> tvlHistory, protocolRisk |-> 950, tokenPair |-> tokenPair,
   platform |-> "uniswap-v3"]

AppScoreInit ==
  /\ Fresh
  /\ \E tvl \in TvlValues, volume24h \in VolumeValues,
        aprHistory \in Histories, tvlHistory \in TvlHistories, tokenPair \in TokenPairs :
       call = [fn |-> "app.calculateHealthScore",
               arg |-> AppPoolData(tvl, volume24h, aprHistory, tvlHistory, tokenPair),
               done |-> FALSE, ret |-> Num(0), breakdown |-> <<>>, terms |-> <<>>]

AppScore ==
  /\ call.fn = "app.calculateHealthScore" /\ ~call.done
  /\ \E t \in {HealthScoreTerms(call.arg)} :
       call' = [call EXCEPT !.done = TRUE, !.ret = FinalScore(t),
                            !.breakdown = Breakdown(t), !.terms = t]
  /\ UNCHANGED <<program, poolsCache, indexFile, cachedPools, lastUpdated, now,
                 started, response, cycle>>

AppScoreNext == AppScore

AppScoreSpec == AppScoreInit /\ [][AppScoreNext]_vars

(* Inputs beyond those updatePoolData passes: negative and large values of *)
(* every numeric field, histories with a negative mean.                    *)
BudgetAprHistories ==
  {Hist(n, ab[1], ab[2]) :
     n \in {0, 12, 92},
     ab \in {<<0, 0>>, <<4, 12>>, <<0, 90>>, <<-5, -5>>, <<-90, 10>>}}

BudgetTvlHistories ==
  {<<>>, Hist(92, 4, 12), Hist(32, -7, 1), Hist(32, 0, 90)}

BudgetInit ==
  /\ Fresh
  /\ \E tvl \in {-5000, 0, 2000000, 6000000}, volume24h \in {-100, 0, 200000},
        protocolRisk \in {-500, 0, 950, 3000},
        aprHistory \in BudgetAprHistories, tvlHistory \in BudgetTvlHistories,
        tokenPair \in TokenPairs :
       call = [fn |-> "app.calculateHealthScore",
               arg |-> [tvl |-> tvl, volume24h |-> volume24h,
                        aprHistory |-> aprHistory, tvlHistory |-> tvlHistory,
                        protocolRisk |-> protocolRisk, tokenPair |-> tokenPair,
                        platform |-> "curve"],
               done |-> FALSE, ret |-> Num(0), breakdown |-> <<>>, terms |-> <<>>]

BudgetSpec == BudgetInit /\ [][AppScoreNext]_vars

(* The apr histories of the yield score: averages in both extreme buckets, *)
(* at their edges, and in the 5-15% band, steady and as volatile as the    *)
(* average allows.                                                         *)
YieldHistories ==
  {Hist(n, ab[1], ab[2]) :
     n \in {1, 2, 12, 32, 92},
     ab \in {<<0, 0>>, <<0, 1>>, <<1, 0>>, <<61, 61>>, <<0, 150>>, <<120, 1>>,
             <<60, 60>>, <<5, 5>>, <<15, 15>>, <<0, 10>>, <<0, 30>>, <<4, 12>>}}

YieldInit ==
  /\ Fresh
  /\ \E aprHistory \in YieldHistories, tvlHistory \in {Hist(92, 4, 12)},
        tokenPair \in {"", "USDC-USDT"} :
       call = [fn |-> "app.calculateHealthScore",
               arg |-> AppPoolData(2000000, 200000, aprHistory, tvlHistory, tokenPair),
               done |-> FALSE, ret |-> Num(0), breakdown |-> <<>>, terms |-> <<>>]

YieldSpec == YieldInit /\ [][AppScoreNext]_vars

(* The tvl values of the whale penalty: none, small, and both sides of the *)
(* two tiers.                                                              *)
WhaleTvls ==
  {0, 1, 5000, 500000, 999999, 1000000, 1000001, 2000000, 4999999, 5000000,
   5000001, 6000000}

(* volume24h as a share of tvl in ten-thousandths, on both sides of the    *)
(* thresholds 0.001, 0.005 and 0.01                                        *)
WhaleShares == {0, 9, 10, 11, 49, 50, 51, 99, 100, 101, 500}

WhaleInit ==
  /\ Fresh
  /\ \E tvl \in WhaleTvls, share \in WhaleShares :
       call = [fn |-> "assessWhaleConcentrationRisk",
               arg |-> [tvl |-> tvl,
                        volume24h |-> IF tvl < 10000 THEN share
                                      ELSE (tvl \div 10000) * share],
               done |-> FALSE, ret |-> 0]

Whale ==
  /\ call.fn = "assessWhaleConcentrationRisk" /\ ~call.done
  /\ call' = [call EXCEPT !.done = TRUE,
                !.ret = assessWhaleConcentrationRisk(call.arg.tvl, call.arg.volume24h)]
  /\ UNCHANGED <<program, poolsCache, indexFile, cachedPools, lastUpdated, now,
                 started, response, cycle>>

WhaleNext == Whale

WhaleSpec == WhaleInit /\ [][WhaleNext]_vars

(***************************************************************************)
(* One entry of the provider's answer on its way through the catalog       *)
(* filter (part_000:152-156, 91-105; app.js:287-290, 255-269) and through  *)
(* a cycle that reaches it.                                                *)
(***************************************************************************)

(* A field of an entry: present with a value, or missing (undefined). *)
Field(v) == [has |-> TRUE, v |-> v]

Missing(v) == [has |-> FALSE, v |-> v]

RawEntries ==
  [pool : {Field("p1"), Missing("")},
   symbol : {Field("WETH-USDC"), Field("FOO-BAR"), Field("FOOBAR"), Missing("")},
   tvlUsd : {Field(0), Field(4999), Field(5000), Field(60000), Missing(0)},
   project : {"uniswap-v3", "other"},
   chain : {"Ethereum", "Polygon"}]

(* pool.symbol.split('-') *)
SymbolTokens(symbol) ==
  CASE symbol = "WETH-USDC" -> {"WETH", "USDC"}
    [] symbol = "FOO-BAR" -> {"FOO", "BAR"}
    [] OTHER -> {symbol}

(* part_000:91-105 and app.js:255-269.  undefined < 5000 and               *)
(* undefined > 50000 are both false.                                       *)
isQualityPool(pool) ==
  IF pool.tvlUsd.has /\ pool.tvlUsd.v < 5000 THEN FALSE
  ELSE IF ~pool.symbol.has \/ Cardinality(SymbolTokens(pool.symbol.v)) < 2 THEN FALSE
  ELSE LET tokens == SymbolTokens(pool.symbol.v)
           hasMajorToken ==
             tokens \cap {"WETH", "USDC", "USDT", "DAI", "WBTC", "UNI", "LINK",
                          "AAVE", "CRV", "BAL"} # {}
           hasStablecoin == tokens \cap {"USDC", "USDT", "DAI", "FRAX", "LUSD"} # {}
           isHighTvl == pool.tvlUsd.has /\ pool.tvlUsd.v > 50000
       IN isHighTvl \/ hasMajorToken \/ hasStablecoin

(* the two filters of fetchDefiLlamaPoolsEnhanced (part_000:153-155) *)
InCatalog(pool) ==
  /\ pool.project \in {"uniswap-v3", "sushiswap", "balancer-v2", "curve", "pancakeswap"}
  /\ pool.chain = "Ethereum"
  /\ isQualityPool(pool)

EntryInit ==
  /\ Fresh
  /\ \E entry \in RawEntries :
       call = [fn |-> "catalogEntry", arg |-> entry, stage |-> "raw"]

(* allPools.filter(...).filter(isQualityPool) decides on the entry *)
FilterEntry ==
  /\ call.fn = "catalogEntry" /\ call.stage = "raw"
  /\ call' = [call EXCEPT !.stage = IF InCatalog(call.arg) THEN "catalog" ELSE "removed"]
  /\ UNCHANGED <<program, poolsCache, indexFile, cachedPools, lastUpdated, now,
                 started, response, cycle>>

(* A cycle reaches the entry and its chart request gives no usable series  *)
(* (part_000:269-273, app.js:384-387): the entry is not scored.            *)
EntryWithoutChart ==
  /\ call.fn = "catalogEntry" /\ call.stage = "catalog"
  /\ call' = [call EXCEPT !.stage = "skipped"]
  /\ UNCHANGED <<program, poolsCache, indexFile, cachedPools, lastUpdated, now,
                 started, response, cycle>>

(* A cycle reaches the entry and the provider answers the chart request    *)
(* with a series: calculateHealthScore is called for the entry             *)
(* (part_000:301, app.js:403).                                             *)
EntryScored ==
  /\ call.fn = "catalogEntry" /\ call.stage = "catalog"
  /\ call' = [call EXCEPT !.stage = "scored"]
  /\ UNCHANGED <<program, poolsCache, indexFile, cachedPools, lastUpdated, now,
                 started, response, cycle>>

EntryNext ==
  \/ FilterEntry
  \/ EntryWithoutChart
  \/ EntryScored

EntrySpec == EntryInit /\ [][EntryNext]_vars

(* The wall clock moves on between callbacks. *)
NextTimed ==
  \/ Next
  \/ Tick

TimedSpec == Init /\ [][NextTimed]_vars

(***************************************************************************)
(* Cycles that keep being triggered over a fixed catalog: the process is   *)
(* (re)started while the catalog cache file is fresh, the cache does not   *)
(* expire and there is no limit on the number of cycles.                   *)
(***************************************************************************)

LiveInit ==
  /\ program = "rotating"
  /\ \E n \in 1..MaxCatalog :
       poolsCache = [exists |-> TRUE, data |-> Catalog(n), fresh |-> TRUE]
  /\ indexFile \in {<<>>} \cup {<<k>> : k \in 0..(MaxCatalog - 1)}
  /\ cachedPools = <<>>
  /\ lastUpdated = 0
  /\ now = 0
  /\ started = 0
  /\ call = NoCall
  /\ response = <<>>
  /\ cycle = [p \in Triggers |-> IdleCycle]

(* cron.schedule fires again, or /api/refresh is requested again. *)
KeepTriggering(p) ==
  /\ StartCached(p)
  /\ UNCHANGED started

(* One score is enough where only the positions attempted matter. *)
LiveScores == {45000}

(* What a chart request that is not answered 429 leads to. *)
ChartOutcome(p) ==
  \/ ChartInsufficient(p)
  \/ ChartThrows(p)
  \/ \E total \in LiveScores : ChartScored(p, total)

LiveNext ==
  \/ \E p \in Triggers : KeepTriggering(p)
  \/ \E p \in Triggers : DelayOver(p)
  \/ \E p \in Triggers : ChartOutcome(p)
  \/ \E p \in Triggers : Return(p)

(* The cron job fires every period (724-727); a timer set by delay() fires *)
(* (200-202); a chart request ends, by its 25 s timeout at the latest      *)
(* (176), here without 429 answers, which RetrySpec has; a returned call   *)
(* ends.  Requests of /api/refresh are up to the clients: no fairness.     *)
LiveFairness ==
  /\ WF_vars(KeepTriggering("cron"))
  /\ \A p \in Triggers :
       /\ WF_vars(DelayOver(p))
       /\ WF_vars(ChartOutcome(p))
       /\ WF_vars(Return(p))

LiveSpec == LiveInit /\ [][LiveNext]_vars /\ LiveFairness

(***************************************************************************)
(* The same cycles when the provider may answer any chart request, and     *)
(* every one of them, with 429 (part_000:189-194, app.js:326-331): the     *)
(* call waits 3 s and calls itself again, with no limit.  requests counts  *)
(* the requests of the call up to MaxRequests and stays there.             *)
(***************************************************************************)

RateLimitedAgain(p) ==
  /\ cycle[p].pc = "http"
  /\ cycle' = [cycle EXCEPT ![p].pc = "backoff"]
  /\ UNCHANGED <<call, response, program, poolsCache, indexFile, cachedPools,
                 lastUpdated, now, started>>

RetryAgain(p) ==
  /\ cycle[p].pc = "backoff"
  /\ cycle' = [cycle EXCEPT ![p].pc = "http",
                            ![p].requests = Min(cycle[p].requests + 1, MaxRequests)]
  /\ UNCHANGED <<call, response, program, poolsCache, indexFile, cachedPools,
                 lastUpdated, now, started>>

(* The chart request of p ends: with a chart, with an error, or with 429. *)
RequestEnds(p) ==
  \/ ChartOutcome(p)
  \/ RateLimitedAgain(p)

RateLimitNext ==
  \/ \E p \in Triggers : KeepTriggering(p)
  \/ \E p \in Triggers : DelayOver(p)
  \/ \E p \in Triggers : RequestEnds(p)
  \/ \E p \in Triggers : RetryAgain(p)
  \/ \E p \in Triggers : Return(p)

(* Every request returns or fails within its timeout (176), every timer    *)
(* fires (200-202), a returned call ends.                                  *)
RateLimitFairness ==
  \A p \in Triggers :
    /\ WF_vars(DelayOver(p))
    /\ WF_vars(RequestEnds(p))
    /\ WF_vars(RetryAgain(p))
    /\ WF_vars(Return(p))

RateLimitSpec == LiveInit /\ [][RateLimitNext]_vars /\ RateLimitFairness

(***************************************************************************)
(* Properties                                                              *)
(***************************************************************************)

Rotating == program = "rotating"

InLoop(c) == c.pc \in {"delay", "http", "backoff"}

(* The cycle of p has returned after running its batch. *)
RanBatch(p) == cycle[p].pc = "done" /\ cycle[p].allPools # <<>>

(* This step is the last callback of p's rotating cycle: write and merge. *)
Completes(p) == cycle[p].pc = "http" /\ cycle'[p].pc = "done"

Ids(pools) == {pools[k].pool_id : k \in 1..Len(pools)}

Records(pools) == {pools[k] : k \in 1..Len(pools)}

(* The record a cycle leaves for id: the last one it scored for that pool. *)
LastFor(processed, id) ==
  processed[CHOOSE k \in 1..Len(processed) :
              /\ processed[k].pool_id = id
              /\ \A j \in (k + 1)..Len(processed) : processed[j].pool_id # id]

(* C1: a cycle that read a valid persisted cursor start (0 <= start < C)   *)
(* leaves, when it completes, the persisted cursor (start + B) mod C.      *)
C1_CursorAfterCycle ==
  [][\A p \in Triggers :
       (Completes(p) /\ cycle[p].readIndex < Len(cycle[p].allPools))
       => indexFile' =
            <<(cycle[p].readIndex + POOLS_PER_REFRESH) % Len(cycle[p].allPools)>>]_vars

(* A completed cycle whose range wrapped around a catalog longer than B. *)
C1_WrapWitness ==
  \E p \in Triggers :
    /\ Rotating /\ RanBatch(p)
    /\ Len(cycle[p].allPools) > POOLS_PER_REFRESH
    /\ cycle[p].readIndex < Len(cycle[p].allPools)
    /\ cycle[p].readIndex + POOLS_PER_REFRESH > Len(cycle[p].allPools)
    /\ indexFile =
         <<(cycle[p].readIndex + POOLS_PER_REFRESH) % Len(cycle[p].allPools)>>

(* C2: whatever the per-pool outcomes (any split of the B positions into   *)
(* scored and failed), the completing step persists lastIndex + B mod C.   *)
C2_AdvancesWhateverOutcomes ==
  [][\A p \in Triggers :
       Completes(p) =>
         /\ cycle'[p].added \in 0..POOLS_PER_REFRESH
         /\ cycle'[p].failed = POOLS_PER_REFRESH - cycle'[p].added
         /\ indexFile' = <<(cycle'[p].lastIndex + POOLS_PER_REFRESH)
                             % Len(cycle'[p].allPools)>>]_vars

(* Two cycles from the same cursor, one with every pool failed and one     *)
(* with every pool scored, and the cursor both have persisted.             *)
C2_AllFailedAllScored ==
  /\ Rotating
  /\ RanBatch("cron") /\ RanBatch("refresh")
  /\ cycle["cron"].failed = POOLS_PER_REFRESH
  /\ cycle["refresh"].added = POOLS_PER_REFRESH
  /\ cycle["cron"].lastIndex = cycle["refresh"].lastIndex
  /\ cycle["cron"].allPools = cycle["refresh"].allPools
  /\ indexFile = <<(cycle["cron"].lastIndex + POOLS_PER_REFRESH)
                     % Len(cycle["cron"].allPools)>>
  /\ indexFile # <<cycle["cron"].lastIndex>>

(* The chart fetch of catalog position k is issued by some cycle. *)
Attempted(k) ==
  \E p \in Triggers : cycle[p].pc = "http" /\ PoolIdx(cycle[p]) = k

(* C3: with a fixed non-empty catalog and cycles that keep being           *)
(* triggered, from any moment on every catalog position is eventually      *)
(* attempted by some cycle, whatever the outcomes of the attempts.         *)
C3_EveryPositionAttempted ==
  \A k \in 0..(MaxCatalog - 1) :
    (Rotating /\ k < Len(poolsCache.data)) ~> Attempted(k)

(* A later cycle, after a merge that stored records, started at a cursor   *)
(* other than 0 in a catalog longer than the batch and has wrapped to      *)
(* position 0, right after an attempt that failed.                         *)
C3_WrappedAttempt ==
  \E p \in Triggers :
    LET c == cycle[p] IN
      /\ Rotating /\ c.pc = "http"
      /\ Len(c.allPools) > POOLS_PER_REFRESH
      /\ cachedPools # <<>>
      /\ c.lastIndex > 0 /\ c.i > 0 /\ c.failed = c.i
      /\ PoolIdx(c) = 0

(* C4: at most one cycle is between its start and its final merge. *)
C4_SingleActiveCycle ==
  Cardinality({p \in Triggers : cycle[p].pc \notin {"idle", "done"}}) <= 1

(* C5: one call of fetchPoolChartEnhanced issues at most two requests. *)
C5_AtMostTwoRequests ==
  \A p \in Triggers : cycle[p].requests <= 2

(* C6: a failed pool does not end the batch: while in the loop every       *)
(* earlier position was counted as scored or failed, every scored pool is  *)
(* a pool of the batch, and a cycle that ran has checked all B positions.  *)
C6_FailureIsolated ==
  \A p \in Triggers :
    LET c == cycle[p]
        batchIds == {c.allPools[((c.lastIndex + j) % Len(c.allPools)) + 1] :
                       j \in 0..(POOLS_PER_REFRESH - 1)}
    IN Rotating =>
         /\ InLoop(c) =>
              /\ c.checked = c.i + 1
              /\ c.added + c.failed = c.i
              /\ Len(c.processedPools) = c.added
         /\ RanBatch(p) =>
              /\ c.checked = POOLS_PER_REFRESH
              /\ c.added + c.failed = POOLS_PER_REFRESH
              /\ Len(c.processedPools) = c.added
              /\ Ids(c.processedPools) \subseteq batchIds

(* A cycle in which a pool failed and the pool at the last position, a     *)
(* different pool, was scored after it.                                    *)
C6_ScoredAfterFailure ==
  \E p \in Triggers :
    LET c == cycle[p] IN
      /\ Rotating /\ RanBatch(p)
      /\ Len(c.allPools) >= POOLS_PER_REFRESH
      /\ c.failed = POOLS_PER_REFRESH - 1 /\ c.added = 1
      /\ c.processedPools[1].pool_id =
           c.allPools[((c.lastIndex + POOLS_PER_REFRESH - 1) % Len(c.allPools)) + 1]

(* C7 as stated: after the merge every pool scored in the cycle has        *)
(* exactly its new record in the store and every other record is kept.     *)
C7_UpsertKeepsEveryRecord ==
  [][\A p \in Triggers :
       Completes(p) =>
         LET processed == cycle'[p].processedPools IN
           /\ \A id \in Ids(processed) :
                /\ LastFor(processed, id) \in Records(cachedPools')
                /\ Cardinality({k \in 1..Len(cachedPools') :
                                  cachedPools'[k].pool_id = id}) = 1
           /\ \A r \in Records(cachedPools) :
                r.pool_id \notin Ids(processed) => r \in Records(cachedPools')]_vars

(* C7 amended: an upsert by pool id, then only the KEEP_TOP best are kept. *)
(* A scored pool is represented by its new record or by none, never by an  *)
(* old one and never twice; a record of a pool not scored is an unchanged  *)
(* old record; nothing is dropped unless more than KEEP_TOP pools are      *)
(* merged, and then no dropped record scores more than a kept one; a       *)
(* non-empty store stays non-empty.                                        *)
C7_UpsertThenTruncate ==
  [][\A p \in Triggers :
       Completes(p) =>
         LET processed == cycle'[p].processedPools
             news == {LastFor(processed, id) : id \in Ids(processed)}
             olds == {r \in Records(cachedPools) : r.pool_id \notin Ids(processed)}
             kept == Records(cachedPools')
         IN /\ kept \subseteq news \cup olds
            /\ \A id \in Ids(processed) :
                 Cardinality({k \in 1..Len(cachedPools') :
                                cachedPools'[k].pool_id = id}) <= 1
            /\ Len(cachedPools') = Min(Cardinality(news \cup olds), KEEP_TOP)
            /\ \A d \in (news \cup olds) \ kept, r \in kept :
                 d.health_score <= r.health_score
            /\ cachedPools # <<>> => cachedPools' # <<>>]_vars

(* A merge that replaced nothing in place: a pool scored in the cycle is   *)
(* not in the store (truncated) while a record of another pool is.         *)
C7_TruncatedWitness ==
  \E p \in Triggers :
    /\ Rotating /\ RanBatch(p)
    /\ Len(cachedPools) = KEEP_TOP
    /\ \E id \in Ids(cycle[p].processedPools) : id \notin Ids(cachedPools)
    /\ \E id \in Ids(cachedPools) : id \notin Ids(cycle[p].processedPools)
    /\ \E id \in Ids(cycle[p].processedPools) :
         LastFor(cycle[p].processedPools, id) \in Records(cachedPools)

(* C8: in app.js a record of a pool not successfully processed in the      *)
(* cycle is still in cachedPools after the cycle.                          *)
C8_AppKeepsUnprocessed ==
  [][\A p \in Triggers :
       (program = "batch" /\ cycle[p].pc = "batch" /\ cycle'[p].pc = "done")
       => \A r \in Records(cachedPools) :
            r.pool_id \notin Ids(cycle'[p].processedPools)
            => r \in Records(cachedPools')]_vars

(* C9: the store is sorted by health_score, highest first, and holds at    *)
(* most KEEP_TOP records (it changes only in the last step of a cycle).    *)
C9_SortedAndBounded ==
  /\ Len(cachedPools) <= KEEP_TOP
  /\ \A k \in 1..(Len(cachedPools) - 1) :
       cachedPools[k].health_score >= cachedPools[k + 1].health_score

(* A full store of differently scored records, left by a merge that had    *)
(* to drop a record and to move a new record ahead of an old one.          *)
C9_FullStoreWitness ==
  \E p \in Triggers :
    /\ Rotating /\ RanBatch(p)
    /\ Len(cachedPools) = KEEP_TOP
    /\ cachedPools[1].health_score > cachedPools[KEEP_TOP].health_score
    /\ cachedPools[1] \in Records(cycle[p].processedPools)
    /\ cachedPools[KEEP_TOP] \notin Records(cycle[p].processedPools)
    /\ \E id \in Ids(cycle[p].processedPools) : id \notin Ids(cachedPools)

(* C10: the index a batch starts at and every index used in the batch are  *)
(* valid for the catalog of the cycle; a persisted cursor that is not      *)
(* below the catalog length is replaced by 0.                              *)
C10_BatchIndexValid ==
  \A p \in Triggers :
    LET c == cycle[p] IN
      (Rotating /\ InLoop(c)) =>
        /\ c.lastIndex \in 0..(Len(c.allPools) - 1)
        /\ PoolIdx(c) \in 0..(Len(c.allPools) - 1)
        /\ c.readIndex >= Len(c.allPools) => c.lastIndex = 0
        /\ c.readIndex < Len(c.allPools) => c.lastIndex = c.readIndex

(* A second cycle finds the cursor that the first one left beyond the end  *)
(* of a catalog that has shrunk meanwhile.                                 *)
C10_ShrunkWitness ==
  \E p \in Triggers :
    /\ Rotating /\ InLoop(cycle[p])
    /\ started = 2
    /\ indexFile # <<>>
    /\ cycle[p].readIndex >= Len(cycle[p].allPools)
    /\ cycle[p].readIndex > 0
    /\ cycle[p].lastIndex = 0

(* The record of pool id in a store. *)
RecordOf(pools, id) == pools[FindIndex(pools, id)]

(* C11: the last_updated of the record a pool has in the store never       *)
(* decreases, whichever cycles upsert it.                                  *)
C11_LastUpdatedMonotonic ==
  [][Rotating =>
       \A id \in Ids(cachedPools) \cap Ids(cachedPools') :
         RecordOf(cachedPools', id).last_updated
           >= RecordOf(cachedPools, id).last_updated]_vars

(* A store without the timestamps of its records. *)
Strip(pools) ==
  [k \in 1..Len(pools) |->
     [pool_id |-> pools[k].pool_id, health_score |-> pools[k].health_score,
      risk_category |-> pools[k].risk_category]]

(* The records a cycle builds from the same inputs at time t. *)
Restamp(pools, t) ==
  [k \in 1..Len(pools) |-> [pools[k] EXCEPT !.last_updated = t]]

(* C12: a cycle that scores pools as the store already has them leaves the *)
(* ids, the scores, the categories and the order of the store as they      *)
(* were, and merging the records of a completed cycle once more, built     *)
(* later from the same inputs, changes nothing but last_updated.           *)
C12_RerunIdempotent ==
  [][\A p \in Triggers :
       Completes(p) =>
         LET processed == cycle'[p].processedPools IN
           /\ Strip(MergeStore(cachedPools', Restamp(processed, now + 1)))
                = Strip(cachedPools')
           /\ (\A id \in Ids(processed) :
                 /\ id \in Ids(cachedPools)
                 /\ RecordOf(cachedPools, id).health_score
                      = LastFor(processed, id).health_score)
              => Strip(cachedPools') = Strip(cachedPools)]_vars

(* Two cycles scored the same pools alike, one at time 0 and one at time   *)
(* 1; the full store, with two records of the same score, holds the later  *)
(* records.                                                                *)
C12_RerunWitness ==
  \E p, q \in Triggers :
    LET P == cycle[p].processedPools
        Q == cycle[q].processedPools
    IN /\ Rotating /\ RanBatch(p) /\ RanBatch(q)
       /\ Len(P) = POOLS_PER_REFRESH
       /\ Strip(P) = Strip(Q)
       /\ \A k \in 1..Len(P) : P[k].last_updated = 1 /\ Q[k].last_updated = 0
       /\ Len(cachedPools) = KEEP_TOP
       /\ Records(P) \subseteq Records(cachedPools)
       /\ cachedPools[1].health_score = cachedPools[KEEP_TOP].health_score
       /\ cachedPools[1].pool_id # cachedPools[KEEP_TOP].pool_id

(* The ids of a store in its order. *)
IdSeq(pools) == [k \in 1..Len(pools) |-> pools[k].pool_id]

(* C13: the store changes only in the last callback of a cycle, at once to *)
(* the complete merge (merged, sorted, cut); so whenever a handler runs it *)
(* finds a sorted store of at most KEEP_TOP records with one record per    *)
(* pool, and the handler leaves the store as it is.                        *)
C13_QuerySeesFinishedMerge ==
  [][Rotating =>
       /\ cachedPools' # cachedPools =>
            \E p \in Triggers :
              /\ Completes(p)
              /\ cachedPools' = MergeStore(cachedPools, cycle'[p].processedPools)
       /\ response' # response =>
            /\ cachedPools' = cachedPools
            /\ \E f \in RiskFilters, sortBy \in SortKeys, limit \in 1..KEEP_TOP :
                 response' = ApiPoolsData(cachedPools, f, sortBy, limit)
            /\ Len(cachedPools) <= KEEP_TOP
            /\ Cardinality(Ids(cachedPools)) = Len(cachedPools)
            /\ \A k \in 1..(Len(cachedPools) - 1) :
                 cachedPools[k].health_score >= cachedPools[k + 1].health_score]_vars

(* A handler has answered, sorted by tvl, in an order other than the       *)
(* store's, while a cycle is in its loop with a scored pool not merged yet. *)
C13_QueryDuringCycle ==
  \E p \in Triggers :
    /\ Rotating /\ InLoop(cycle[p])
    /\ \E id \in Ids(cycle[p].processedPools) : id \notin Ids(cachedPools)
    /\ Len(cachedPools) = KEEP_TOP
    /\ response = ApiPoolsData(cachedPools, "all", "tvl", KEEP_TOP)
    /\ response # IdSeq(cachedPools)
    /\ Len(response) = KEEP_TOP

(* C14: every score of [0, 100] gets exactly one category, by inclusive    *)
(* lower bounds: >= 80 Conservative, >= 60 Moderate, >= 40 Aggressive,     *)
(* below 40 Speculative.                                                   *)
C14_RiskPartition ==
  (call.fn = "getRiskCategory" /\ call.ret # "pending") =>
    /\ call.ret \in {"Conservative", "Moderate", "Aggressive", "Speculative"}
    /\ call.ret = "Conservative" <=> call.arg >= 80000
    /\ call.ret = "Moderate" <=> (call.arg >= 60000 /\ call.arg < 80000)
    /\ call.ret = "Aggressive" <=> (call.arg >= 40000 /\ call.arg < 60000)
    /\ call.ret = "Speculative" <=> call.arg < 40000

(* The boundary score 60 has been classified, as Moderate. *)
C14_BoundaryWitness ==
  /\ call.fn = "getRiskCategory"
  /\ call.arg = 60000
  /\ call.ret = "Moderate"

(* The claim's inputs: nothing to divide by, or a history of mean 0. *)
Degenerate(poolData) ==
  \/ poolData.tvl = 0 /\ poolData.volume24h = 0
  \/ Len(poolData.tvlHistory) >= 2 /\ Sum(poolData.tvlHistory) = 0
  \/ Len(poolData.aprHistory) >= 2 /\ Sum(poolData.aprHistory) = 0

(* C16: for degenerate inputs the totalScore of server.js is a number of   *)
(* [0, 100], never NaN.                                                    *)
C16_ServerScoreInRange ==
  (call.fn = "server.calculateHealthScore" /\ call.done /\ Degenerate(call.arg)) =>
    /\ IsFinite(call.ret)
    /\ call.ret.v >= 0 /\ call.ret.v <= 100000

(* C15: the totalScore of app.js is a number of [0, 100] for every input,  *)
(* the degenerate ones included.                                           *)
C15_AppScoreInRange ==
  (call.fn = "app.calculateHealthScore" /\ call.done) =>
    /\ IsFinite(call.ret)
    /\ call.ret.v >= 0 /\ call.ret.v <= 100000

(* Scored: tvl 0, volume 0, no tvl history and an apr history of zeros.    *)
C15_DegenerateWitness ==
  /\ call.fn = "app.calculateHealthScore" /\ call.done
  /\ call.arg.tvl = 0 /\ call.arg.volume24h = 0
  /\ call.arg.tvlHistory = <<>>
  /\ call.arg.aprHistory = Hist(12, 0, 0)
  /\ IsFinite(call.ret) /\ call.ret.v > 0

(* A call of fetchDefiLlamaPoolsEnhanced by p begins in this step. *)
Called(p) == cycle[p].pc = "idle" /\ cycle'[p].pc # "idle"

(* C17 as stated: while a cache entry younger than the TTL exists, a call  *)
(* issues no request and returns the cached data.                          *)
C17_YoungEntryNoRequest ==
  [][\A p \in Triggers :
       (Called(p) /\ poolsCache.exists /\ poolsCache.fresh) =>
         /\ cycle'[p].pc # "catalog"
         /\ poolsCache' = poolsCache]_vars

(* C17 amended: while a cache entry younger than the TTL exists that holds *)
(* a non-empty catalog, a call issues no request, leaves the entry as it   *)
(* is and the cycle works on the cached catalog; an entry with an empty    *)
(* catalog counts as no entry.                                             *)
C17_YoungNonEmptyEntryNoRequest ==
  [][\A p \in Triggers :
       Called(p) =>
         IF poolsCache.exists /\ poolsCache.fresh /\ poolsCache.data # <<>>
         THEN /\ cycle'[p].pc # "catalog"
              /\ poolsCache' = poolsCache
              /\ cycle'[p].allPools =
                   IF Rotating THEN poolsCache.data
                   ELSE SubSeq(poolsCache.data, 1, Min(Len(poolsCache.data), APP_POOL_LIMIT))
         ELSE cycle'[p].pc = "catalog"]_vars

(* The second cycle runs on the catalog that the first one has cached and  *)
(* that is still young.                                                    *)
C17_SecondCallCached ==
  \E p, q \in Triggers :
    /\ p # q
    /\ Rotating
    /\ poolsCache.exists /\ poolsCache.fresh
    /\ cycle[q].pc = "done" /\ cycle[q].allPools = poolsCache.data
    /\ cycle[p].pc = "delay" /\ cycle[p].allPools = poolsCache.data
    /\ indexFile # <<>>
    /\ cycle[p].readIndex = indexFile[1]
    /\ cycle[p].readIndex # cycle[q].readIndex

(* C18: an entry without a pool id, a symbol or a tvl is removed by the    *)
(* filter and calculateHealthScore is never called for it.                 *)
C18_MalformedEntryFiltered ==
  (call.fn = "catalogEntry" /\ call.stage \in {"catalog", "skipped", "scored"}) =>
    /\ call.arg.pool.has
    /\ call.arg.symbol.has
    /\ call.arg.tvlUsd.has

(***************************************************************************)
(* part_000 when writing the cursor file fails: writeProcessedIndex        *)
(* (222-228) has no handler of its own, so the exception of writeFileSync  *)
(* leaves the try block of processPoolDataEnhanced at line 371 and is      *)
(* caught at 406-409.                                                      *)
(***************************************************************************)

FaultInit ==
  /\ Init
  /\ program = "rotating"

(* The chart request of the last iteration ends with total (0: no usable   *)
(* chart, or scoring throws), the loop ends and writeProcessedIndex        *)
(* throws: the merge, the statistics and lastUpdated (373-400) are not     *)
(* reached.                                                                *)
CursorWriteFails(p, total) ==
  /\ cycle[p].pc = "http"
  /\ cycle[p].i + 1 >= POOLS_PER_REFRESH
  /\ cycle' = [cycle EXCEPT ![p] =
       IF total = 0
       THEN [@ EXCEPT !.pc = "caught", !.failed = @ + 1]
       ELSE [@ EXCEPT !.pc = "caught", !.added = @ + 1,
                      !.processedPools = Append(@, ProcessedPool(cycle[p], total))]]
  /\ UNCHANGED <<call, response, program, poolsCache, indexFile, cachedPools,
                 lastUpdated, now, started>>

(* What processPoolDataEnhanced gives its caller: processedPools (404), or *)
(* the empty list from the catch block (406-409); it never rejects.        *)
CycleOutcome(c) ==
  IF c.pc = "caught"
  THEN [threw |-> FALSE, pools |-> <<>>]
  ELSE [threw |-> FALSE, pools |-> c.processedPools]

(* The body /api/refresh sends for the outcome of the awaited cycle        *)
(* (630-664).                                                              *)
RefreshAnswer(outcome, cached) ==
  IF outcome.threw
  THEN [success |-> FALSE, processed |-> 0, totalCached |-> 0]
  ELSE [success |-> TRUE, processed |-> Len(outcome.pools),
        totalCached |-> Len(cached)]

(* The cycle started by /api/refresh returns and the handler answers. *)
RefreshAnswers ==
  /\ cycle["refresh"].pc \in {"done", "caught"}
  /\ response' = <<RefreshAnswer(CycleOutcome(cycle["refresh"]), cachedPools)>>
  /\ cycle' = [cycle EXCEPT !["refresh"] = IdleCycle]
  /\ UNCHANGED <<call, program, poolsCache, indexFile, cachedPools,
                 lastUpdated, now, started>>

(* The cycle started by the schedule returns; its result is dropped        *)
(* (724-727).                                                              *)
ScheduledReturns ==
  /\ cycle["cron"].pc \in {"done", "caught"}
  /\ cycle' = [cycle EXCEPT !["cron"] = IdleCycle]
  /\ UNCHANGED <<call, response, program, poolsCache, indexFile, cachedPools,
                 lastUpdated, now, started>>

FaultNext ==
  \/ \E p \in Triggers : TriggerCached(p)
  \/ \E p \in Triggers : TriggerFetch(p)
  \/ \E p \in Triggers, n \in 0..MaxCatalog : CatalogResponse(p, n)
  \/ \E p \in Triggers : CatalogError(p)
  \/ CacheExpires
  \/ \E p \in Triggers : DelayOver(p)
  \/ \E p \in Triggers : ChartInsufficient(p)
  \/ \E p \in Triggers : ChartThrows(p)
  \/ \E p \in Triggers, total \in TotalScores : ChartScored(p, total)
  \/ \E p \in Triggers, total \in {0} \cup TotalScores : CursorWriteFails(p, total)
  \/ RefreshAnswers
  \/ ScheduledReturns

FaultSpec == FaultInit /\ [][FaultNext]_vars

(* The pools at the batch positions of a cycle with locals c. *)
BatchIds(c) ==
  {c.allPools[((c.lastIndex + j) % Len(c.allPools)) + 1] :
     j \in 0..(POOLS_PER_REFRESH - 1)}

(* The pools of the batch that the cycle skipped at every position. *)
SkippedIds(c) == BatchIds(c) \ Ids(c.processedPools)

(* C19 as stated: the merge of a cycle neither adds a record for a pool it *)
(* skipped nor changes or removes the record the pool had.                 *)
C19_SkippedKeepsRecord ==
  [][\A p \in Triggers :
       Completes(p) =>
         \A id \in SkippedIds(cycle'[p]) :
           IF id \in Ids(cachedPools)
           THEN /\ id \in Ids(cachedPools')
                /\ RecordOf(cachedPools', id) = RecordOf(cachedPools, id)
           ELSE id \notin Ids(cachedPools')]_vars

(* C19 amended: no record is upserted for a skipped pool; the record it    *)
(* had is unchanged if it is still there, and it is removed only by the    *)
(* truncation, from a full store whose records all score at least as much. *)
C19_SkippedKeepsOrTruncated ==
  [][\A p \in Triggers :
       Completes(p) =>
         \A id \in SkippedIds(cycle'[p]) :
           /\ id \in Ids(cachedPools') =>
                /\ id \in Ids(cachedPools)
                /\ RecordOf(cachedPools', id) = RecordOf(cachedPools, id)
           /\ (id \in Ids(cachedPools) /\ id \notin Ids(cachedPools')) =>
                /\ Len(cachedPools') = KEEP_TOP
                /\ \A k \in 1..KEEP_TOP :
                     cachedPools'[k].health_score
                       >= RecordOf(cachedPools, id).health_score]_vars

(* A cycle skipped a pool that has a record from an earlier cycle, scored  *)
(* another pool, and both records are in the store.                        *)
C19_SkippedWitness ==
  \E p \in Triggers :
    /\ Rotating /\ RanBatch(p)
    /\ cycle[p].failed > 0 /\ cycle[p].added > 0
    /\ \E id \in SkippedIds(cycle[p]) : id \in Ids(cachedPools)
    /\ Records(cycle[p].processedPools) \subseteq Records(cachedPools)

(* C20: when the cursor write of the cycle started by /api/refresh fails,  *)
(* the handler's answer for that cycle does not say success.               *)
C20_CursorFailureReported ==
  [][(cycle["refresh"].pc = "caught" /\ cycle'["refresh"].pc = "idle") =>
       /\ response' # <<>>
       /\ ~response'[1].success]_vars

(***************************************************************************)
(* Binary floating point as JavaScript numbers compute: every operation    *)
(* returns the exact result rounded to the nearest number of Precision     *)
(* significant bits, ties to the even significand.  A number is            *)
(* s * m * 2^e with 2^(Precision-1) <= m < 2^Precision; the exponent is    *)
(* not limited.  JavaScript's binary64 has 53 significant bits, IEEE       *)
(* binary16 has the 11 used here; the rounding rule is the same.           *)
(***************************************************************************)

Precision == 11

Abs(x) == IF x < 0 THEN -x ELSE x

FlZero == [s |-> 0, m |-> 0, e |-> 0]

(* the number of bits of M, 0 < M < 2^30 *)
BitLen(M) == CHOOSE b \in 1..30 : 2^(b - 1) <= M /\ M < 2^b

(* s * M * 2^E rounded to Precision bits *)
FlRound(s, M, E) ==
  IF M = 0 \/ s = 0 THEN FlZero
  ELSE LET b == BitLen(M)
       IN IF b <= Precision
          THEN [s |-> s, m |-> M * 2^(Precision - b), e |-> E - (Precision - b)]
          ELSE LET k == b - Precision
                   q == M \div 2^k
                   r == M % 2^k
                   half == 2^(k - 1)
                   q1 == IF r > half \/ (r = half /\ q % 2 = 1) THEN q + 1 ELSE q
               IN IF q1 = 2^Precision
                  THEN [s |-> s, m |-> 2^(Precision - 1), e |-> E + k + 1]
                  ELSE [s |-> s, m |-> q1, e |-> E + k]

(* a whole number as a float *)
FlInt(n) == FlRound(Sign(n), Abs(n), 0)

(* a + b *)
FlAdd(a, b) ==
  IF a.s = 0 THEN b
  ELSE IF b.s = 0 THEN a
  ELSE LET hi == IF a.e >= b.e THEN a ELSE b
           lo == IF a.e >= b.e THEN b ELSE a
           d == hi.e - lo.e
       IN IF d > Precision + 2
          THEN LET M == hi.s * hi.m * 2^(Precision + 3) + lo.s
               IN FlRound(Sign(M), Abs(M), hi.e - (Precision + 3))
          ELSE LET M == hi.s * hi.m * 2^d + lo.s * lo.m
               IN FlRound(Sign(M), Abs(M), lo.e)

FlNeg(a) == [a EXCEPT !.s = -a.s]

(* a - b *)
FlSub(a, b) == FlAdd(a, FlNeg(b))

(* a * b *)
FlMul(a, b) == FlRound(a.s * b.s, a.m * b.m, a.e + b.e)

(* a / b for b other than 0 *)
FlDiv(a, b) ==
  IF a.s = 0 THEN FlZero
  ELSE LET num == a.m * 2^(Precision + 3)
           q == num \div b.m
           sticky == IF num % b.m = 0 THEN 0 ELSE 1
       IN FlRound(a.s * b.s, 2 * q + sticky, a.e - b.e - (Precision + 3) - 1)

(* Math.sqrt(a) for a >= 0 *)
FlSqrt(a) ==
  IF a.s = 0 THEN FlZero
  ELSE LET odd == a.e % 2 = 1
           x == (IF odd THEN 2 * a.m ELSE a.m) * 2^16
           e2 == (IF odd THEN a.e - 1 ELSE a.e) - 16
           r == Sqrt(x)
           sticky == IF r * r = x THEN 0 ELSE 1
       IN FlRound(1, 2 * r + sticky, (e2 \div 2) - 1)

(* a < b *)
FlLess(a, b) == FlSub(a, b).s < 0

(* values.reduce((sum, val) => sum + val, 0): from the left *)
RECURSIVE FlSum(_, _)
FlSum(values, n) ==
  IF n = 0 THEN FlZero ELSE FlAdd(FlSum(values, n - 1), values[n])

(* values.reduce((sum, val) => sum + Math.pow(val - mean, 2), 0) *)
RECURSIVE FlSquaredDeviations(_, _, _)
FlSquaredDeviations(values, mean, n) ==
  IF n = 0 THEN FlZero
  ELSE FlAdd(FlSquaredDeviations(values, mean, n - 1),
             FlMul(FlSub(values[n], mean), FlSub(values[n], mean)))

(* app.js:204-210 (part_000:54-60 is the same), on floats *)
calculateVarianceFl(values) ==
  IF Len(values) < 2 THEN FlZero
  ELSE LET mean == FlDiv(FlSum(values, Len(values)), FlInt(Len(values)))
       IN IF mean.s = 0 THEN FlZero
          ELSE LET variance == FlDiv(FlSquaredDeviations(values, mean, Len(values)),
                                     FlInt(Len(values)))
               IN FlDiv(FlSqrt(variance), mean)

(* The longest series calculateVariance is called on. *)
MaxSeries == 6

(* every positive and negative float of exponent 0 *)
FlValues ==
  {[s |-> sg, m |-> m, e |-> 0] :
     sg \in {-1, 1}, m \in (2^(Precision - 1))..(2^Precision - 1)}

(* The series: the empty one, one sample, n equal samples, n samples that  *)
(* alternate between v and -v, and n samples of which the last is doubled. *)
VarianceSeries ==
  {<<>>}
  \cup {[k \in 1..n |-> v] : n \in 1..MaxSeries, v \in FlValues \cup {FlZero}}
  \cup {[k \in 1..n |-> IF k % 2 = 1 THEN v ELSE FlNeg(v)] :
          n \in {2, 4}, v \in {FlInt(3), FlInt(1025)}}
  \cup {[k \in 1..n |-> IF k = n THEN FlInt(6) ELSE FlInt(3)] : n \in 2..MaxSeries}

VarianceInit ==
  /\ Fresh
  /\ \E values \in VarianceSeries :
       call = [fn |-> "calculateVariance", arg |-> values, done |-> FALSE,
               ret |-> FlZero]

Variance ==
  /\ call.fn = "calculateVariance" /\ ~call.done
  /\ call' = [call EXCEPT !.done = TRUE, !.ret = calculateVarianceFl(call.arg)]
  /\ UNCHANGED <<program, poolsCache, indexFile, cachedPools, lastUpdated, now,
                 started, response, cycle>>

VarianceNext == Variance

VarianceSpec == VarianceInit /\ [][VarianceNext]_vars

(* the loop of calculateRobustVolatility (221-228) on floats: the          *)
(* coefficients of variation of the windows values.slice(i - windowSize, i) *)
(* whose mean is positive, for i from from to to                           *)
RECURSIVE FlRollingVolatilities(_, _, _, _)
FlRollingVolatilities(values, windowSize, from, to) ==
  IF from > to THEN <<>>
  ELSE LET window == SubSeq(values, to - windowSize + 1, to)
           windowMean == FlDiv(FlSum(window, windowSize), FlInt(windowSize))
           windowVariance ==
             FlDiv(FlSquaredDeviations(window, windowMean, windowSize), FlInt(windowSize))
       IN FlRollingVolatilities(values, windowSize, from, to - 1)
          \o (IF windowMean.s > 0
              THEN <<FlDiv(FlSqrt(windowVariance), windowMean)>>
              ELSE <<>>)

(* rollingVolatilities.sort((a, b) => a - b)[j - 1]: the j-th smallest *)
FlSortedAt(xs, j) ==
  LET x == CHOOSE i \in 1..Len(xs) :
             /\ Cardinality({h \in 1..Len(xs) : FlLess(xs[h], xs[i])}) < j
             /\ j <= Cardinality({h \in 1..Len(xs) : ~FlLess(xs[i], xs[h])})
  IN xs[x]

(* Mutant: the largest rolling volatility instead of the median. *)
calculateRobustVolatilityMax(values) ==
  IF Len(values) < 10 THEN FlZero
  ELSE LET windowSize == Min(30, Len(values) \div 4)
           rolling == FlRollingVolatilities(values, windowSize, windowSize,
                                            Len(values) - 1)
       IN IF Len(rolling) = 0 THEN FlZero ELSE FlSortedAt(rolling, Len(rolling))

(* app.js:213-239 on floats: the median of the rolling volatilities *)
calculateRobustVolatilityFl(values) ==
  IF Len(values) < 10 THEN FlZero
  ELSE LET windowSize == Min(30, Len(values) \div 4)
           rolling == FlRollingVolatilities(values, windowSize, windowSize,
                                            Len(values) - 1)
           medianIndex == Len(rolling) \div 2
       IN IF Len(rolling) = 0 THEN FlZero
          ELSE IF Len(rolling) % 2 = 0
               THEN FlDiv(FlAdd(FlSortedAt(rolling, medianIndex),
                                FlSortedAt(rolling, medianIndex + 1)), FlInt(2))
               ELSE FlSortedAt(rolling, medianIndex + 1)

(* The lengths of the series with a spike: windows of 3, 4 and 5 samples. *)
SpikeSeriesLengths == {12, 13, 16, 20}

(* The baselines, and how a spike value is made from the baseline: the     *)
(* next float above it, its double, 64 times it.                           *)
Baselines == {[s |-> 1, m |-> m, e |-> 0] : m \in {1024, 1025, 1366, 1433, 1638, 2046}}

SpikeKinds == {"next", "double", "large"}

SpikeValue(baseline, kind) ==
  CASE kind = "next" -> [baseline EXCEPT !.m = @ + 1]
    [] kind = "double" -> [baseline EXCEPT !.e = @ + 1]
    [] kind = "large" -> [baseline EXCEPT !.e = @ + 6]

(* n samples at the baseline except for len samples from position pos on *)
SpikeSeries(n, baseline, spike, pos, len) ==
  [k \in 1..n |-> IF pos <= k /\ k < pos + len THEN spike ELSE baseline]

RobustInit ==
  /\ Fresh
  /\ \E n \in SpikeSeriesLengths, baseline \in Baselines, kind \in SpikeKinds :
       \E len \in 1..(Min(30, n \div 4) \div 2) :
         \E pos \in 1..(n - len + 1) :
           /\ 2 * len < Min(30, n \div 4)
           /\ call = [fn |-> "calculateRobustVolatility",
                      arg |-> SpikeSeries(n, baseline, SpikeValue(baseline, kind), pos, len),
                      kind |-> kind, done |-> FALSE,
                      ret |-> FlZero, plain |-> FlZero]

(* calculateRobustVolatility and calculateVariance of the same series *)
Robust ==
  /\ call.fn = "calculateRobustVolatility" /\ ~call.done
  /\ call' = [call EXCEPT !.done = TRUE,
                          !.ret = calculateRobustVolatilityFl(call.arg),
                          !.plain = calculateVarianceFl(call.arg)]
  /\ UNCHANGED <<program, poolsCache, indexFile, cachedPools, lastUpdated, now,
                 started, response, cycle>>

RobustNext == Robust

RobustSpec == RobustInit /\ [][RobustNext]_vars

(* rollingVolatilities of calculateRobustVolatility (216-228) for a series *)
(* of 10 samples or more                                                   *)
RollingOf(values) ==
  FlRollingVolatilities(values, Min(30, Len(values) \div 4),
                        Min(30, Len(values) \div 4), Len(values) - 1)

(* values with the sample at index k (from 0) made eight times as large *)
Changed(values, k) ==
  [values EXCEPT ![k + 1] = [@ EXCEPT !.e = @ + 3]]

WindowInit ==
  /\ Fresh
  /\ \E n \in {10, 11} \cup SpikeSeriesLengths, baseline \in Baselines :
       \E k \in 0..(n - 1) :
         call = [fn |-> "rollingVolatilities",
                 arg |-> [j \in 1..n |-> baseline], index |-> k,
                 done |-> FALSE, ret |-> <<>>, changed |-> <<>>]

(* The rolling volatilities of the series and of the series with one       *)
(* sample changed.                                                         *)
Windows ==
  /\ call.fn = "rollingVolatilities" /\ ~call.done
  /\ call' = [call EXCEPT !.done = TRUE,
                          !.ret = RollingOf(call.arg),
                          !.changed = RollingOf(Changed(call.arg, call.index))]
  /\ UNCHANGED <<program, poolsCache, indexFile, cachedPools, lastUpdated, now,
                 started, response, cycle>>

WindowNext == Windows

WindowSpec == WindowInit /\ [][WindowNext]_vars

(* This step starts the first batch of p's cycle in app.js. *)
BeginsUpdate(p) ==
  cycle[p].pc \in {"idle", "catalog"} /\ cycle'[p].pc = "batch"

(* C21: the first pool updatePoolData processes in a cycle is the pool at  *)
(* the persisted cursor, taken modulo the catalog length.                  *)
C21_BatchStartsAtCursor ==
  [][\A p \in Triggers :
       BeginsUpdate(p) =>
         LET rawPools == poolsCache'.data
             c == cycle'[p]
         IN BatchOf(c)[1] = rawPools[(c.readIndex % Len(rawPools)) + 1]]_vars

(* The exact sum of a series of floats of exponent 0. *)
ExactSum(values) == Sum([k \in 1..Len(values) |-> values[k].s * values[k].m])

ConstantSeries(values) == \A k \in 1..Len(values) : values[k] = values[1]

(* C22: calculateVariance returns 0 for fewer than 2 samples, for a mean   *)
(* of 0 and for 2 or more samples that all have the same nonzero value.    *)
C22_VarianceZeroCases ==
  (call.fn = "calculateVariance" /\ call.done) =>
     ((\/ Len(call.arg) < 2
       \/ ExactSum(call.arg) = 0
       \/ ConstantSeries(call.arg)) => call.ret = FlZero)

(* The first two cases of C22 alone. *)
C22_ShortOrZeroMean ==
  (call.fn = "calculateVariance" /\ call.done) =>
     ((Len(call.arg) < 2 \/ ExactSum(call.arg) = 0) => call.ret = FlZero)

(* C23 as stated: for a constant series with one short spike of larger     *)
(* values, calculateRobustVolatility is strictly lower than                *)
(* calculateVariance of the whole series.                                  *)
C23_RobustBelowPlain ==
  (call.fn = "calculateRobustVolatility" /\ call.done) =>
     FlLess(call.ret, call.plain)

(* C23 amended: the same when the spike values are at least twice the      *)
(* baseline.                                                               *)
C23_RobustBelowPlainLargeSpike ==
  (call.fn = "calculateRobustVolatility" /\ call.done
     /\ call.kind \in {"double", "large"}) =>
     FlLess(call.ret, call.plain)

(* A series with a spike of two samples of twice the baseline inside the   *)
(* windows has been evaluated and its plain variance is not 0.             *)
C23_SpikeWitness ==
  /\ call.fn = "calculateRobustVolatility" /\ call.done
  /\ call.kind = "double"
  /\ Len(call.arg) = 20
  /\ call.arg[7] # call.arg[1] /\ call.arg[8] # call.arg[1]
  /\ call.plain.s > 0

(* The sum of the sub-scores of a breakdown. *)
SubScoreSum(b) ==
  Plus(Plus(Plus(b.liquidityScore, b.yieldScore),
            Plus(b.impermanentLossScore, b.protocolScore)),
       Plus(Plus(b.activityScore, b.trackRecordScore), b.riskAdjustedScore))

(* C24: when the score is inside (0, 100), so that the final clamp is not  *)
(* active, the sub-scores of the breakdown add up to the score.            *)
C24_BreakdownSumsToScore ==
  (call.fn = "app.calculateHealthScore" /\ call.done
     /\ IsFinite(call.ret) /\ 0 < call.ret.v /\ call.ret.v < 100000) =>
     SubScoreSum(call.breakdown) = call.ret

(* C24 amended: when the final clamp is not active, the sum of the         *)
(* sub-scores of the breakdown times the pool type multiplier is the score *)
(* up to the rounding of the sub-scores to two decimals (0.04 in all).     *)
C24_ScaledBreakdownSumsToScore ==
  (call.fn = "app.calculateHealthScore" /\ call.done
     /\ IsFinite(call.ret) /\ 0 < call.ret.v /\ call.ret.v < 100000) =>
     LET scaled == Product(SubScoreSum(call.breakdown), call.breakdown.poolTypeMultiplier)
     IN /\ IsFinite(scaled)
        /\ Abs(scaled.v - call.ret.v) <= 40

(* A stablecoin pair was scored inside (0, 100) with multiplier 1.05 and   *)
(* its sub-scores do not add up to the score.                              *)
C24_MultiplierWitness ==
  /\ call.fn = "app.calculateHealthScore" /\ call.done
  /\ call.breakdown.poolTypeMultiplier = Num(1050)
  /\ IsFinite(call.ret) /\ 0 < call.ret.v /\ call.ret.v < 100000
  /\ SubScoreSum(call.breakdown) # call.ret

(* C25: every cycle that is started eventually reaches its cursor write    *)
(* and merge, also when chart requests are answered with 429.              *)
C25_CycleCompletes ==
  \A p \in Triggers : (cycle[p].pc \notin {"idle", "done"}) ~> (cycle[p].pc = "done")

(* C26: in a rotating cycle the loop moves to the next batch position only *)
(* when the chart request of the current one has returned, and then waits: *)
(* the first request for a position is issued only when the delay is over, *)
(* a request is repeated only after its backoff, and the cycle has a       *)
(* request in flight only at one position.                                 *)
C26_SequentialThrottled ==
  [][\A p \in Triggers :
       Rotating =>
         /\ (InLoop(cycle[p]) /\ InLoop(cycle'[p]) /\ cycle'[p].i # cycle[p].i) =>
              /\ cycle[p].pc = "http"
              /\ cycle'[p].i = cycle[p].i + 1
              /\ cycle'[p].pc = "delay"
         /\ (cycle'[p].pc = "http" /\ cycle[p].pc # "http") =>
              /\ cycle'[p].i = cycle[p].i
              /\ \/ cycle[p].pc = "delay" /\ cycle'[p].requests = 1
                 \/ cycle[p].pc = "backoff" /\ cycle'[p].requests = cycle[p].requests + 1]_vars

(* The request for the second batch position is in flight, as a retry. *)
C26_SecondFetchWitness ==
  \E p \in Triggers :
    /\ Rotating /\ cycle[p].pc = "http"
    /\ cycle[p].i = 1 /\ cycle[p].requests = 2

(* C27: when the cursor write of a rotating cycle fails, the records the   *)
(* cycle scored are merged into the store all the same.                    *)
C27_FailedWriteStillMerges ==
  [][\A p \in Triggers :
       (cycle[p].pc = "http" /\ cycle'[p].pc = "caught") =>
         cachedPools' = MergeStore(cachedPools, cycle'[p].processedPools)]_vars

(* C28: a cycle whose catalog fetch yields no pools returns at once, and   *)
(* none of its steps changes the store, the last-updated marker or the     *)
(* persisted cursor.                                                       *)
C28_EmptyCatalogNoOp ==
  [][\A p \in Triggers :
       /\ (cycle[p].pc \in {"idle", "catalog"} /\ cycle'[p].pc = "done") =>
            /\ cycle'[p].allPools = <<>>
            /\ cycle'[p].processedPools = <<>>
       /\ (cycle'[p] # cycle[p] /\ cycle[p].allPools = <<>> /\ cycle'[p].allPools = <<>>) =>
            /\ cachedPools' = cachedPools
            /\ lastUpdated' = lastUpdated
            /\ indexFile' = indexFile]_vars

(* A cycle got no pools and has returned while the store holds records of  *)
(* an earlier cycle, stamped after time 0.                                 *)
C28_EmptyCycleWitness ==
  \E p \in Triggers :
    /\ cycle[p].pc = "done" /\ cycle[p].allPools = <<>>
    /\ cachedPools # <<>> /\ lastUpdated > 0 /\ indexFile # <<>>

(* The average APR, in thousandths of a percent, is in an extreme bucket. *)
ExtremeApr(avgApr) == avgApr < 500 \/ avgApr > 60000

(* The average APR is in the 5-15% band. *)
BandApr(avgApr) == 5000 <= avgApr /\ avgApr <= 15000

(* C29: the stability multiplier is within [0.5, 1.3]; the yield sub-score *)
(* of a pool in an extreme bucket is at most 1.3 times the bucket's 2      *)
(* points and that of a pool in the 5-15% band at least half of its 20     *)
(* points, so the first is strictly lower than the second for any two      *)
(* pools.                                                                  *)
C29_ExtremeBelowBand ==
  (call.fn = "app.calculateHealthScore" /\ call.done) =>
     LET t == call.terms IN
       /\ IsFinite(t.stabilityMultiplier) /\ IsFinite(t.totalYieldScore)
       /\ 500 <= t.stabilityMultiplier.v /\ t.stabilityMultiplier.v <= 1300
       /\ ExtremeApr(t.avgApr) => t.totalYieldScore.v <= 2600
       /\ BandApr(t.avgApr) => t.totalYieldScore.v >= 10000

(* A steady pool above 60% was scored: the multiplier is above 1 and the   *)
(* yield sub-score above the bucket's 2 points.                            *)
C29_SteadyExtremeWitness ==
  /\ call.fn = "app.calculateHealthScore" /\ call.done
  /\ call.arg.aprHistory = Hist(92, 61, 61)
  /\ call.terms.stabilityMultiplier.v > 1000
  /\ call.terms.totalYieldScore.v > 2000

(* A volatile pool of the 5-15% band was scored: the multiplier is below 1 *)
(* and the yield sub-score below the bucket's 20 points.                   *)
C29_VolatileBandWitness ==
  /\ call.fn = "app.calculateHealthScore" /\ call.done
  /\ call.arg.aprHistory = Hist(92, 0, 30)
  /\ call.terms.stabilityMultiplier.v < 1000
  /\ call.terms.totalYieldScore.v < 20000

(* volume24h / tvl < num / 1000, with the ratio taken as 0 when tvl is 0 *)
RatioBelow(arg, num) == arg.tvl = 0 \/ 1000 * arg.volume24h < num * arg.tvl

(* C30 as stated: the penalty is 0 for every tvl up to 1,000,000, and for  *)
(* a larger tvl it is nonzero only when volume24h / tvl is below the       *)
(* threshold of the pool's tier.                                           *)
C30_PenaltyOnlyLargePools ==
  (call.fn = "assessWhaleConcentrationRisk" /\ call.done) =>
     /\ call.arg.tvl <= 1000000 => call.ret = 0
     /\ (call.arg.tvl > 1000000 /\ call.ret # 0) =>
          RatioBelow(call.arg, IF call.arg.tvl > 5000000 THEN 1 ELSE 5)

(* C30 amended: the penalty is nonzero exactly when volume24h / tvl is     *)
(* below 0.01; it is 5 above 5,000,000 with a ratio below 0.001, else 3    *)
(* above 1,000,000 with a ratio below 0.005, else 1; a pool of at most     *)
(* 1,000,000 gets 0 or 1.                                                  *)
C30_PenaltyByRatio ==
  (call.fn = "assessWhaleConcentrationRisk" /\ call.done) =>
     /\ call.ret # 0 <=> RatioBelow(call.arg, 10)
     /\ call.ret = 5000 <=> (call.arg.tvl > 5000000 /\ RatioBelow(call.arg, 1))
     /\ call.ret = 3000 <=>
          /\ call.arg.tvl > 1000000 /\ RatioBelow(call.arg, 5)
          /\ ~(call.arg.tvl > 5000000 /\ RatioBelow(call.arg, 1))
     /\ call.ret \in {0, 1000, 3000, 5000}
     /\ call.arg.tvl <= 1000000 => call.ret \in {0, 1000}

(* A pool of 5,000 with no volume got the penalty 1. *)
C30_SmallPoolPenalised ==
  /\ call.fn = "assessWhaleConcentrationRisk" /\ call.done
  /\ call.arg.tvl = 5000 /\ call.arg.volume24h = 0
  /\ call.ret = 1000

(* a is a number of [0, budget], budget in points *)
Within(a, budget) == IsFinite(a) /\ 0 <= a.v /\ a.v <= 1000 * budget

(* C31: every sub-score that calculateHealthScore sums is a number within  *)
(* its point budget: liquidity 25, yield 20, impermanent loss 20, protocol *)
(* 15, activity 10, track record 10, risk-adjusted bonus 5.                *)
C31_SubScoresWithinBudget ==
  (call.fn = "app.calculateHealthScore" /\ call.done) =>
     LET t == call.terms IN
       /\ Within(t.adjustedLiquidityScore, 25)
       /\ Within(t.totalYieldScore, 20)
       /\ Within(t.impermanentLossRisk, 20)
       /\ Within(t.protocolScore, 15)
       /\ Within(t.activityScore, 10)
       /\ Within(t.trackRecordScore, 10)
       /\ Within(t.riskAdjustedScore, 5)

(* A pool with a negative tvl, a negative volume, a protocol prior of 3    *)
(* and histories of negative mean was scored: protocol is at its budget.   *)
C31_OutOfRangeInputsWitness ==
  /\ call.fn = "app.calculateHealthScore" /\ call.done
  /\ call.arg.tvl < 0 /\ call.arg.volume24h < 0 /\ call.arg.protocolRisk = 3000
  /\ call.arg.aprHistory = Hist(92, -90, 10)
  /\ call.arg.tvlHistory = Hist(32, -7, 1)
  /\ call.terms.protocolScore = Num(15000)

(* C32: every sample index 0..n-1 lies in a window of                      *)
(* calculateRobustVolatility: changing the sample at any index changes the *)
(* value of some window.                                                   *)
C32_EverySampleInAWindow ==
  (call.fn = "rollingVolatilities" /\ call.done) => call.changed # call.ret

(* The same for every index but the last. *)
C32_AllButLastInAWindow ==
  (call.fn = "rollingVolatilities" /\ call.done /\ call.index < Len(call.arg) - 1) =>
     call.changed # call.ret

(* C33: the store of the rotating revision never holds two records with    *)
(* the same pool_id, also after a cycle that scored one pool twice.        *)
C33_UniquePoolIds ==
  Rotating =>
    \A j, k \in 1..Len(cachedPools) :
      cachedPools[j].pool_id = cachedPools[k].pool_id => j = k

(* A cycle on a catalog shorter than the batch scored the same pool twice  *)
(* and has merged.                                                         *)
C33_ScoredTwiceWitness ==
  \E p \in Triggers :
    /\ Rotating /\ RanBatch(p)
    /\ Len(cycle[p].allPools) < POOLS_PER_REFRESH
    /\ Len(cycle[p].processedPools) = POOLS_PER_REFRESH
    /\ cycle[p].processedPools[1].pool_id = cycle[p].processedPools[2].pool_id
    /\ cycle[p].processedPools[1].pool_id \in Ids(cachedPools)

(* C34: every record stored by the rotating revision carries the label     *)
(* that classifies its stored health_score (Conservative from 80, Moderate *)
(* from 60, Aggressive from 40, Speculative below).                        *)
C34_LabelMatchesStoredScore ==
  Rotating =>
    \A k \in 1..Len(cachedPools) :
      cachedPools[k].risk_category = getRiskCategory(cachedPools[k].health_score)

(* C35: on a fixed catalog of length C every completing cycle of the       *)
(* rotating revision moves the persisted cursor forward by B from the      *)
(* value the previously completed cycle left (0 when none has completed),  *)
(* also when the cycles overlap.                                           *)
C35_EveryCycleAdvances ==
  [][\A p \in Triggers :
       (/\ Completes(p)
        /\ \A q \in Triggers : cycle[q].allPools \in {<<>>, cycle[p].allPools}
        /\ readProcessedIndex < Len(cycle[p].allPools))
       => indexFile' =
            <<(readProcessedIndex + POOLS_PER_REFRESH) % Len(cycle[p].allPools)>>]_vars

(* C36: within one cycle of the rotating revision no catalog entry is      *)
(* fetched more than once: the position being fetched differs from every   *)
(* earlier position of the same cycle, for every catalog length.           *)
C36_NoEntryFetchedTwice ==
  \A p \in Triggers :
    (Rotating /\ cycle[p].pc = "http") =>
      \A j \in 0..(cycle[p].i - 1) :
        (cycle[p].lastIndex + j) % Len(cycle[p].allPools) # PoolIdx(cycle[p])

(* The same for the catalogs that are at least as long as the batch. *)
C36_NoEntryFetchedTwiceLongCatalog ==
  \A p \in Triggers :
    (Rotating /\ cycle[p].pc = "http"
       /\ Len(cycle[p].allPools) >= POOLS_PER_REFRESH) =>
      \A j \in 0..(cycle[p].i - 1) :
        (cycle[p].lastIndex + j) % Len(cycle[p].allPools) # PoolIdx(cycle[p])

====
